---------------------------- MODULE Spec2Model ----------------------------
(***************************************************************************)
(* Coarse-offset consistency analysis of an SBEM acquisition               *)
(* (source/s04_proof_read_coarse_offsets): aggregation of the per-section  *)
(* offset and tile-id-map files, the degenerate-value locator, the trace   *)
(* extractor and the windowed outlier detector.                            *)
(*                                                                         *)
(* Text (paths, dictionary keys, report files) is a sequence of one-       *)
(* character strings; a python dict is a function whose DOMAIN is its key  *)
(* set; numpy arrays are functions over 0-based index ranges.              *)
(***************************************************************************)
EXTENDS Integers, Sequences, FiniteSets, TLC

VARIABLES
    \* ---- aggregation (backup_coarse_offsets.py main) ----
    section_dirs,     \* Inspection.section_dirs: sorted list of directory names
    dir_files,        \* the file system: per directory, cx_cy.json / tile_id_map.json
    agg_pc,           \* position of main: "offsets", "maps", "done", "raised"
    agg_i,            \* loop index into section_dirs (1-based)
    offsets,          \* dict built by aggregate_coarse_offsets
    offsets_failed,   \* failed_paths of aggregate_coarse_offsets
    maps,             \* dict built by aggregate_tile_id_maps
    maps_failed,      \* failed_paths of aggregate_tile_id_maps
    inspect_dir,      \* the files of the _inspect directory, by file name
    \* ---- degenerate-value locator (inspection_utils.locate_inf_vals) ----
    inf_pc,           \* "idle", "returned", "raised"
    inf_ret,          \* the value locate_inf_vals returned
    \* ---- windowed outlier detector (find_outliers), called on its own ----
    det_pc,           \* "idle", "returned"
    det_in,           \* the arguments: series, window_before, window_after, threshold
    det_out,          \* the set of flagged section ids
    \* ---- TraceOutlierDetector (identify_outliers.py) ----
    td_pc,            \* "constructed", "loaded", "raised", "done"
    cxyz_obj,         \* self.cxyz_obj: None, or Some(archive)
    tile_id_maps_obj, \* self.tile_id_maps_obj: None, or Some(archive)
    trace_call,       \* the last get_trace call made on its own: arguments and result
    run_args,         \* main_get_cxyz_outliers: n_before, n_after, thresh, trace_ids
    win_split,        \* how find_outliers lays its one win_size around a point
    tile_idx,         \* index of the next tile id of the run
    last_call,        \* the last process_tile_id call: what it flagged and stored
    \* ---- grid lookups called on their own (inspection_utils.py) ----
    grid_in,          \* the arguments: tile_id_map, tile_id
    grid_out,         \* None, or Some of the function called and what it returned
    \* ---- tile-id sets of an archive ----
    unique_ret,       \* None, or Some(get_unique_tile_ids())
    ids_set_ret,      \* None, or Some of get_tile_ids_set's outcome
    \* ---- a second run over the same inputs ----
    run_no,           \* 1 in the first run, 2 in the second
    first_dir,        \* None, or Some(the files of _inspect after the first run)
    \* ---- s01_parse_data.section_in_range, called on its own ----
    range_in,         \* None, or the arguments <<name, start, end>>
    range_out,        \* None, or Some(the value returned)
    \* ---- parse_sections.py main (s03_estimate_coarse_offsets, s03_compute_tile_masks) ----
    glob_paths,       \* the result of glob("s*_g*"): directory names in any order
    wf_config,        \* start_section, end_section, chunk_size
    parse_pc,         \* "idle", "start", "done", "raised"
    chunk_files,      \* the chunk files written, by chunk index i
    \* ---- mask computation (create_masks.py, create_simple_smear_masks.py main) ----
    mask_script,      \* which script runs: "create_masks", "create_simple_smear_masks"
    mask_paths,       \* config.section_paths
    mask_i,           \* loop index into mask_paths (1-based)
    masks_computed,   \* the section paths compute_masks was called on, in order
    done_sections,    \* the list done_sections of main
    done_file         \* None, or Some(the list dumped to the done-sections file)

aggVars == <<section_dirs, dir_files, agg_pc, agg_i, offsets, offsets_failed,
             maps, maps_failed>>
infVars == <<inf_pc, inf_ret>>

detVars == <<det_pc, det_in, det_out>>
tdVars == <<td_pc, cxyz_obj, tile_id_maps_obj, trace_call, run_args, win_split,
            tile_idx, last_call>>

gridVars == <<grid_in, grid_out>>
idsVars == <<unique_ret, ids_set_ret>>
rerunVars == <<run_no, first_dir>>
rangeVars == <<range_in, range_out>>
parseVars == <<glob_paths, wf_config, parse_pc, chunk_files>>
maskVars == <<mask_script, mask_paths, mask_i, masks_computed, done_sections, done_file>>
stageVars == <<rangeVars, parseVars, maskVars>>

otherThanAgg == <<infVars, detVars, tdVars, gridVars, idsVars, rerunVars, stageVars>>
otherThanInf == <<aggVars, detVars, tdVars, gridVars, idsVars, rerunVars, stageVars>>
otherThanDet == <<aggVars, inspect_dir, infVars, tdVars, gridVars, idsVars, rerunVars, stageVars>>
otherThanTd == <<aggVars, infVars, detVars, gridVars, idsVars, rerunVars, stageVars>>
otherThanGrid == <<aggVars, inspect_dir, infVars, detVars, tdVars, idsVars, rerunVars, stageVars>>

-----------------------------------------------------------------------------
(* Bounds of the model *)

\* longest list of section directories handed to the aggregation
MaxDirs == 3

\* most infinite values in one offsets archive
MaxInf == 2

\* the representation of float("inf"); finite shift values lie strictly between
\* NegInf and PosInf
PosInf == 1000
NegInf == -PosInf

\* rows and columns of a tile grid (parameter_config.grid_shape, scaled down)
GridShape == <<2, 2>>

\* largest section number of a series, and of the archives of the outlier runs
MaxSec == 5

\* largest section number of the archives of the trace and outlier runs
MaxArchSec == 3

\* largest tile id in the grids the lookups are called on
MaxTile == 2

\* largest window_before and window_after
MaxWin == 2

\* thresholds and shift values of the series the detector is run on
Thresholds == {0, 1, 2}
SeriesValues == {0, 10}

\* section numbers of the archives the locator is run on
InfSecNums == {2, 10}

\* section numbers and grid numbers the directory names are built from
AggSecNums == {2, 10}
GridNums == {1, 2}

-----------------------------------------------------------------------------
(* Python values *)

\* Optional values: None, or Some(v)
None == <<>>
Some(v) == <<v>>
NL == "\n"
EmptyDict == [k \in {} |-> 0]

\* d[k] = v
DictPut(d, k, v) == [j \in (DOMAIN d) \cup {k} |-> IF j = k THEN v ELSE d[j]]

Digits == <<"0", "1", "2", "3", "4", "5", "6", "7", "8", "9">>
IsDigit(c) == \E i \in 1..10 : Digits[i] = c
DigitVal(c) == (CHOOSE i \in 1..10 : Digits[i] = c) - 1

\* str(n) of a non-negative int, as characters
RECURSIVE DecStr(_)
DecStr(n) == IF n < 10 THEN <<Digits[n + 1]>>
             ELSE DecStr(n \div 10) \o <<Digits[(n % 10) + 1]>>

\* str(v) of an Optional[int]
PyStr(v) == IF v = None THEN <<"N", "o", "n", "e">> ELSE DecStr(v[1])

\* int(s): Some(value) of a digit string; None stands for the ValueError
RECURSIVE DigitsValue(_, _)
DigitsValue(s, acc) == IF s = <<>> THEN acc
                       ELSE DigitsValue(Tail(s), 10 * acc + DigitVal(Head(s)))
PyInt(s) == IF s # <<>> /\ \A i \in 1..Len(s) : IsDigit(s[i])
            THEN Some(DigitsValue(s, 0)) ELSE None

\* s.split("_")[0]
RECURSIVE BeforeUnderscore(_)
BeforeUnderscore(s) == IF s = <<>> \/ Head(s) = "_" THEN <<>>
                       ELSE <<Head(s)>> \o BeforeUnderscore(Tail(s))

\* s.strip("s")
RECURSIVE LStripS(_)
LStripS(s) == IF s # <<>> /\ Head(s) = "s" THEN LStripS(Tail(s)) ELSE s
RECURSIVE RStripS(_)
RStripS(s) == IF s # <<>> /\ s[Len(s)] = "s" THEN RStripS(SubSeq(s, 1, Len(s) - 1)) ELSE s
StripS(s) == RStripS(LStripS(s))

\* the directory name s<z>_g<n>
SecName(z, g) == <<"s">> \o DecStr(z) \o <<"_", "g">> \o DecStr(g)

\* inspection_utils.get_section_num: Optional[int]
get_section_num(section_path) == PyInt(StripS(BeforeUnderscore(section_path)))

\* section_id of backup_coarse_offsets.py / inspection.py (the sort key)
section_id(x) == PyInt(Tail(BeforeUnderscore(x)))[1]


-----------------------------------------------------------------------------
(* Aggregation: Inspection.backup_coarse_offsets, backup_tile_id_maps *)

Range(s) == {s[i] : i \in 1..Len(s)}

DirNames == {SecName(z, g) : z \in AggSecNums, g \in GridNums}

\* Inspection.list_all_section_dirs: the glob result sorted by section_id
\* (a stable sort of an arbitrarily ordered glob: ties in either order)
list_all_section_dirs ==
    {s \in UNION {[1..n -> DirNames] : n \in 0..MaxDirs} :
        /\ \A i, j \in 1..Len(s) : i # j => s[i] # s[j]
        /\ \A i, j \in 1..Len(s) : i < j => section_id(s[i]) <= section_id(s[j])}

\* a file of a section directory: absent, parseable, or present but unparseable
FileStates == {"absent", "ok", "bad"}

\* "\n".join(lines)
RECURSIVE JoinNL(_)
JoinNL(lines) == IF lines = <<>> THEN <<>>
                 ELSE IF Len(lines) = 1 THEN lines[1]
                 ELSE lines[1] \o <<NL>> \o JoinNL(Tail(lines))

\* f"s{get_section_num(section_path)}\n"
MissingLabel(section_path) == <<"s">> \o PyStr(get_section_num(section_path)) \o <<NL>>

\* the array read from the cx_cy.json of a directory: np.array((cx, cy))
CxCyOf(section_path) == <<"cx_cy", section_path>>
\* the grid read from the tile_id_map.json of a directory
TidMapOf(section_path) == <<"tile_id_map", section_path>>

\* read_coarse_mat: (None, cx, cy), or None after a caught decode error
read_coarse_mat(section_path, state) ==
    IF state = "ok" THEN <<None, CxCyOf(section_path)>> ELSE None

AggInit ==
    /\ section_dirs \in list_all_section_dirs
    /\ dir_files \in [Range(section_dirs) -> [cx : FileStates, tid : FileStates]]
    /\ agg_pc = "offsets"
    /\ agg_i = 1
    /\ offsets = EmptyDict
    /\ offsets_failed = <<>>
    /\ maps = EmptyDict
    /\ maps_failed = <<>>
    /\ inspect_dir = EmptyDict

\* aggregate_coarse_offsets, one iteration: cx_cy.json does not exist
AggOffsetsMissing ==
    /\ agg_pc = "offsets" /\ agg_i <= Len(section_dirs)
    /\ dir_files[section_dirs[agg_i]].cx = "absent"
    /\ offsets_failed' = Append(offsets_failed, MissingLabel(section_dirs[agg_i]))
    /\ agg_i' = agg_i + 1
    /\ UNCHANGED <<section_dirs, dir_files, agg_pc, offsets, maps, maps_failed, inspect_dir>>
    /\ UNCHANGED otherThanAgg

\* aggregate_coarse_offsets, one iteration: the file exists; unpacking the None
\* that read_coarse_mat returns for an unparseable file raises TypeError
AggOffsetsLoad ==
    /\ agg_pc = "offsets" /\ agg_i <= Len(section_dirs)
    /\ dir_files[section_dirs[agg_i]].cx # "absent"
    /\ LET section_path == section_dirs[agg_i]
           got == read_coarse_mat(section_path, dir_files[section_path].cx)
       IN  IF got = None
           THEN /\ agg_pc' = "raised"
                /\ UNCHANGED <<agg_i, offsets>>
           ELSE /\ offsets' = DictPut(offsets, PyStr(get_section_num(section_path)), got[2])
                /\ agg_i' = agg_i + 1
                /\ UNCHANGED agg_pc
    /\ UNCHANGED <<section_dirs, dir_files, offsets_failed, maps, maps_failed, inspect_dir>>
    /\ UNCHANGED otherThanAgg

\* the missing-files report opened for appending
BackupCoarseOffsetsSaveAppending ==
    /\ agg_pc = "offsets" /\ agg_i = Len(section_dirs) + 1
    /\ inspect_dir' = DictPut(DictPut(inspect_dir, "all_offsets.npz", offsets),
                              "all_offsets_missing_files.txt",
                              IF "all_offsets_missing_files.txt" \in DOMAIN inspect_dir
                              THEN inspect_dir["all_offsets_missing_files.txt"]
                                       \o JoinNL(offsets_failed)
                              ELSE JoinNL(offsets_failed))
    /\ agg_pc' = "maps"
    /\ agg_i' = 1
    /\ UNCHANGED <<section_dirs, dir_files, offsets, offsets_failed, maps, maps_failed>>
    /\ UNCHANGED otherThanAgg

\* backup_coarse_offsets after aggregate_coarse_offsets returned: np.savez and
\* the missing-files report
BackupCoarseOffsetsSave ==
    /\ agg_pc = "offsets" /\ agg_i = Len(section_dirs) + 1
    /\ inspect_dir' = DictPut(DictPut(inspect_dir, "all_offsets.npz", offsets),
                              "all_offsets_missing_files.txt", JoinNL(offsets_failed))
    /\ agg_pc' = "maps"
    /\ agg_i' = 1
    /\ UNCHANGED <<section_dirs, dir_files, offsets, offsets_failed, maps, maps_failed>>
    /\ UNCHANGED otherThanAgg

\* aggregate_tile_id_maps, one iteration: tile_id_map.json does not exist
AggMapsMissing ==
    /\ agg_pc = "maps" /\ agg_i <= Len(section_dirs)
    /\ dir_files[section_dirs[agg_i]].tid = "absent"
    /\ maps_failed' = Append(maps_failed, MissingLabel(section_dirs[agg_i]))
    /\ agg_i' = agg_i + 1
    /\ UNCHANGED <<section_dirs, dir_files, agg_pc, offsets, offsets_failed, maps, inspect_dir>>
    /\ UNCHANGED otherThanAgg

\* aggregate_tile_id_maps, one iteration: the file exists; get_tile_id_map
\* raises ValueError for an unparseable file
AggMapsLoad ==
    /\ agg_pc = "maps" /\ agg_i <= Len(section_dirs)
    /\ dir_files[section_dirs[agg_i]].tid # "absent"
    /\ LET section_path == section_dirs[agg_i]
       IN  IF dir_files[section_path].tid = "bad"
           THEN /\ agg_pc' = "raised"
                /\ UNCHANGED <<agg_i, maps>>
           ELSE /\ maps' = DictPut(maps, PyStr(get_section_num(section_path)),
                                   TidMapOf(section_path))
                /\ agg_i' = agg_i + 1
                /\ UNCHANGED agg_pc
    /\ UNCHANGED <<section_dirs, dir_files, offsets, offsets_failed, maps_failed, inspect_dir>>
    /\ UNCHANGED otherThanAgg

\* backup_tile_id_maps after aggregate_tile_id_maps returned
BackupTileIdMapsSave ==
    /\ agg_pc = "maps" /\ agg_i = Len(section_dirs) + 1
    /\ inspect_dir' = DictPut(DictPut(inspect_dir, "all_tile_id_maps.npz", maps),
                              "all_missing_tile_id_maps.txt", JoinNL(maps_failed))
    /\ agg_pc' = "done"
    /\ UNCHANGED <<section_dirs, dir_files, agg_i, offsets, offsets_failed, maps, maps_failed>>
    /\ UNCHANGED otherThanAgg

\* main called a second time after the first run ended, the section
\* directories unchanged: a new Inspection lists the same directories
AggRunAgain ==
    /\ agg_pc \in {"done", "raised"} /\ run_no = 1
    /\ run_no' = 2
    /\ first_dir' = Some(inspect_dir)
    /\ agg_pc' = "offsets"
    /\ agg_i' = 1
    /\ offsets' = EmptyDict
    /\ offsets_failed' = <<>>
    /\ maps' = EmptyDict
    /\ maps_failed' = <<>>
    /\ UNCHANGED <<section_dirs, dir_files, inspect_dir>>
    /\ UNCHANGED <<infVars, detVars, tdVars, gridVars, idsVars, stageVars>>

AggNext ==
    \/ AggOffsetsMissing
    \/ AggOffsetsLoad
    \/ BackupCoarseOffsetsSave
    \/ AggMapsMissing
    \/ AggMapsLoad
    \/ BackupTileIdMapsSave


-----------------------------------------------------------------------------
(* numpy arrays: tile-id maps [y][x] and offset tensors [c][z][y][x] *)

NumRows == GridShape[1]
NumCols == GridShape[2]

Size(f) == Cardinality(DOMAIN f)

\* a numpy subscript i of an axis of length n: valid from -n to n - 1, negative
\* ones counting from the end; anything else raises IndexError
IndexOk(i, n) == -n <= i /\ i < n
NpIndex(i, n) == IF i < 0 THEN i + n ELSE i

\* tile_id_map[y][x] / tile_id_map[y, x] raises IndexError unless InGrid
InGrid(tile_id_map, y, x) ==
    /\ IndexOk(y, Size(tile_id_map))
    /\ IndexOk(x, Size(tile_id_map[0]))
GridAt(tile_id_map, y, x) ==
    tile_id_map[NpIndex(y, Size(tile_id_map))][NpIndex(x, Size(tile_id_map[0]))]

\* all index tuples of a 4-axis array
Coords(t) == {<<c, z, y, x>> : c \in DOMAIN t, z \in DOMAIN t[0],
                               y \in DOMAIN t[0][0], x \in DOMAIN t[0][0][0]}

TensorAt(t, crd) == t[crd[1]][crd[2]][crd[3]][crd[4]]

\* row-major (C) order of index tuples, the order np.where reports them in
LexLess(a, b) == \E i \in 1..Len(a) :
                    /\ \A j \in 1..(i - 1) : a[j] = b[j]
                    /\ a[i] < b[i]

RECURSIVE RowMajor(_)
RowMajor(S) == IF S = {} THEN <<>>
               ELSE LET m == CHOOSE c \in S : \A d \in S \ {c} : LexLess(c, d)
                    IN  <<m>> \o RowMajor(S \ {m})

\* a test that misses -inf
isinf_positive_only(v) == v = PosInf

\* np.isinf
isinf(v) == v = PosInf \/ v = NegInf

\* list(zip(*np.where(np.isinf(arr))))
InfCoordsList(arr) == RowMajor({crd \in Coords(arr) : isinf(TensorAt(arr, crd))})

\* the keys of an archive in file order: np.savez stores the dict in insertion
\* order, which is the section_id order of the directory list
RECURSIVE KeysInOrder(_)
KeysInOrder(K) == IF K = {} THEN <<>>
                  ELSE LET m == CHOOSE k \in K : \A j \in K : PyInt(k)[1] <= PyInt(j)[1]
                       IN  <<m>> \o KeysInOrder(K \ {m})

-----------------------------------------------------------------------------
(* Degenerate-value locator: inspection_utils.locate_inf_vals *)

\* inspection_utils.tile_id_from_coord: Optional[int]
tile_id_from_coord(coord, tile_id_map) ==
    IF Len(coord) \in {2, 4}
    THEN LET y == coord[Len(coord) - 1]
             x == coord[Len(coord)]
         IN  IF InGrid(tile_id_map, y, x) THEN Some(GridAt(tile_id_map, y, x)) ELSE None
    ELSE None

\* the neighbour directions exchanged
NeighbourCoordSwapped(crd) ==
    LET dx == IF crd[1] # 0 THEN 1 ELSE 0
        dy == IF crd[1] = 0 THEN 1 ELSE 0
        n == Len(crd)
    IN  [i \in 1..n |-> IF i = n - 1 THEN crd[i] + dy
                        ELSE IF i = n THEN crd[i] + dx ELSE crd[i]]

\* locate_inf_vals lines 333-339: the coordinate of the paired neighbour
NeighbourCoord(crd) ==
    LET dx == IF crd[1] = 0 THEN 1 ELSE 0
        dy == IF crd[1] # 0 THEN 1 ELSE 0
        n == Len(crd)
    IN  [i \in 1..n |-> IF i = n - 1 THEN crd[i] + dy
                        ELSE IF i = n THEN crd[i] + dx ELSE crd[i]]

\* locate_inf_vals lines 329-344: the tile-id pair of one coordinate
TidPair(crd, tile_id_map) ==
    <<tile_id_from_coord(crd, tile_id_map),
      tile_id_from_coord(NeighbourCoord(crd), tile_id_map)>>

\* locate_inf_vals lines 322-352: coords_w_key of one section; tid_maps is the
\* loaded tile-id-map archive, or None
CoordsWithKey(section_num, arr, tid_maps) ==
    LET coords_list == InfCoordsList(arr)
        key == PyInt(section_num)[1]
    IN  IF tid_maps # None
        THEN [i \in 1..Len(coords_list) |->
                 <<key>> \o coords_list[i] \o TidPair(coords_list[i], tid_maps[1][section_num])]
        ELSE [i \in 1..Len(coords_list) |-> <<key>> \o coords_list[i]]

\* tid_maps[section_num] raises KeyError for a section the map archive lacks
LocateRaises(cxyz, tid_maps) ==
    tid_maps # None /\ \E section_num \in DOMAIN cxyz : section_num \notin DOMAIN tid_maps[1]

RECURSIVE AllCoords(_, _, _)
AllCoords(keys, cxyz, tid_maps) ==
    IF keys = <<>> THEN <<>>
    ELSE CoordsWithKey(Head(keys), cxyz[Head(keys)], tid_maps)
             \o AllCoords(Tail(keys), cxyz, tid_maps)

\* np.load of a file of _inspect: Some(archive), or None for FileNotFoundError
LoadNpz(name) == IF name \in DOMAIN inspect_dir THEN Some(inspect_dir[name]) ELSE None

InfHeader == <<"# Slice", "C", "Z", "Y", "X", "TileID", "TileID_nn">>

\* a slip of the output path: the report is written over the offsets archive
StoreInfValsOverArchive(dir, all_coords) ==
    DictPut(dir, "all_offsets.npz", <<InfHeader>> \o all_coords)

\* locate_inf_vals lines 357-366: np.savetxt of the header and one row per record
StoreInfVals(dir, all_coords) ==
    DictPut(dir, "inf_vals.txt", <<InfHeader>> \o all_coords)

\* locate_inf_vals(path_cxyz, dir_out, store)
LocateInfVals ==
    /\ inf_pc = "idle"
    /\ \E store \in BOOLEAN :
         LET cxyz == LoadNpz("all_offsets.npz")
             tid_maps == LoadNpz("all_tile_id_maps.npz")
         IN  IF cxyz = None
             THEN /\ inf_pc' = "returned"
                  /\ inf_ret' = None
                  /\ UNCHANGED inspect_dir
             ELSE IF LocateRaises(cxyz[1], tid_maps)
             THEN /\ inf_pc' = "raised"
                  /\ UNCHANGED <<inf_ret, inspect_dir>>
             ELSE LET all_coords == AllCoords(KeysInOrder(DOMAIN cxyz[1]), cxyz[1], tid_maps)
                  IN  /\ inf_pc' = "returned"
                      /\ inf_ret' = Some(all_coords)
                      /\ inspect_dir' =
                            IF store THEN StoreInfVals(inspect_dir, all_coords)
                            ELSE inspect_dir
    /\ UNCHANGED otherThanInf

\* the subsets of S with at most n elements
RECURSIVE SubsetsUpTo(_, _)
SubsetsUpTo(S, n) == IF n = 0 THEN {{}}
                     ELSE LET P == SubsetsUpTo(S, n - 1)
                          IN  P \cup {p \cup {e} : p \in P, e \in S}

TensorCoords == {<<c, z, y, x>> : c \in 0..1, z \in 0..1,
                                  y \in 0..(NumRows - 1), x \in 0..(NumCols - 1)}

\* a tile grid of GridShape numbering its tiles row by row from `first`, with a
\* hole (-1) at `hole`
GridOf(first, hole) ==
    [y \in 0..(NumRows - 1) |-> [x \in 0..(NumCols - 1) |->
        IF <<y, x>> = hole THEN -1 ELSE first + y * NumCols + x]]
NoHole == <<-1, -1>>

\* the stacked [cx, cy] array of a section: `base` everywhere but at the marked
\* cells, which hold the marked value
TensorOf(base, marks) ==
    [c \in 0..1 |-> [z \in 0..1 |-> [y \in 0..(NumRows - 1) |-> [x \in 0..(NumCols - 1) |->
        IF \E m \in marks : m[1] = <<c, z, y, x>>
        THEN (CHOOSE m \in marks : m[1] = <<c, z, y, x>>)[2]
        ELSE base]]]]

\* infinite values placed in an archive: (section key, coordinate, +inf or -inf)
InfMarks == {<<DecStr(k), crd, v>> : k \in InfSecNums, crd \in TensorCoords, v \in {PosInf, NegInf}}

\* the offset archives of the locator runs: any sections of InfSecNums, at most
\* MaxInf infinite values in all
InfArchives ==
    {[k \in K |-> TensorOf(0, {<<m[2], m[3]>> : m \in {n \in M : n[1] = k}})] :
        K \in SUBSET {DecStr(k) : k \in InfSecNums},
        M \in {N \in SubsetsUpTo(InfMarks, MaxInf) :
                 \A a, b \in N : (a[1] = b[1] /\ a[2] = b[2]) => a = b}}

\* the tile-id-map archives of the locator runs: section 2 without a hole,
\* section 10 (when the archive has it) with one
InfTidArchives ==
    {[k \in K |-> IF k = DecStr(2) THEN GridOf(0, NoHole) ELSE GridOf(1, <<1, 0>>)] :
        K \in {{DecStr(2)}, {DecStr(k) : k \in InfSecNums}}}

FilesOf(name, contents) == {EmptyDict} \cup {DictPut(EmptyDict, name, c) : c \in contents}

\* d1 | d2 of two dicts with disjoint keys
DictUnion(d1, d2) == [k \in (DOMAIN d1) \cup (DOMAIN d2) |->
                         IF k \in DOMAIN d1 THEN d1[k] ELSE d2[k]]

InfInit ==
    /\ inspect_dir \in {DictUnion(a, b) : a \in FilesOf("all_offsets.npz", InfArchives),
                                          b \in FilesOf("all_tile_id_maps.npz", InfTidArchives)}
    /\ inf_pc = "idle"
    /\ inf_ret = None

-----------------------------------------------------------------------------
(* Trace extractor: TraceOutlierDetector.load_data, get_trace *)

\* a missing archive taken for an empty one
LoadDataLenient ==
    /\ td_pc = "constructed"
    /\ td_pc' = "loaded"
    /\ cxyz_obj' = IF "all_offsets.npz" \in DOMAIN inspect_dir
                   THEN LoadNpz("all_offsets.npz") ELSE Some(EmptyDict)
    /\ tile_id_maps_obj' = IF "all_tile_id_maps.npz" \in DOMAIN inspect_dir
                           THEN LoadNpz("all_tile_id_maps.npz") ELSE Some(EmptyDict)
    /\ UNCHANGED <<trace_call, run_args, win_split, tile_idx, last_call, inspect_dir>>
    /\ UNCHANGED otherThanTd

\* TraceOutlierDetector.load_data
LoadData ==
    /\ td_pc = "constructed"
    /\ IF "all_offsets.npz" \in DOMAIN inspect_dir /\ "all_tile_id_maps.npz" \in DOMAIN inspect_dir
       THEN /\ td_pc' = "loaded"
            /\ cxyz_obj' = LoadNpz("all_offsets.npz")
            /\ tile_id_maps_obj' = LoadNpz("all_tile_id_maps.npz")
       ELSE /\ td_pc' = "raised"
            /\ UNCHANGED <<cxyz_obj, tile_id_maps_obj>>
    /\ UNCHANGED <<trace_call, run_args, win_split, tile_idx, last_call, inspect_dir>>
    /\ UNCHANGED otherThanTd

GridCells(tile_map) == {<<y, x>> : y \in DOMAIN tile_map, x \in DOMAIN tile_map[0]}

\* np.where(tile_map == tile_id): the matching cells in row-major order
WhereEqual(tile_map, tile_id) ==
    RowMajor({yx \in GridCells(tile_map) : tile_map[yx[1]][yx[2]] = tile_id})

\* the other channel read
ShiftVectorOtherChannel(arr, axis, y, x) ==
    [z \in 1..Size(arr[1 - axis]) |-> arr[1 - axis][z - 1][y][x]]

\* tuple(cxyz[sec_num][axis, :, y, x])
ShiftVector(arr, axis, y, x) == [z \in 1..Size(arr[axis]) |-> arr[axis][z - 1][y][x]]

\* cxyz[sec_num][axis, :, y, x] raises IndexError unless
ShiftVectorOk(arr, axis, y, x) ==
    /\ IndexOk(axis, Size(arr))
    /\ IndexOk(y, Size(arr[0][0]))
    /\ IndexOk(x, Size(arr[0][0][0]))

\* get_trace lines 65-73, the body for one section: None for `continue`,
\* else Some((vec, yx))
TraceEntry(sec_num, tile_map, cxyz, tile_id, axis) ==
    LET found == WhereEqual(tile_map, tile_id)
    IN  IF found = <<>> THEN None
        ELSE IF sec_num \notin DOMAIN cxyz THEN None
        ELSE IF ~ShiftVectorOk(cxyz[sec_num], axis, found[1][1], found[1][2]) THEN None
        ELSE Some(<<ShiftVector(cxyz[sec_num], axis, found[1][1], found[1][2]), found[1]>>)

\* the loop left at the first section that is skipped
RECURSIVE TraceDictBreaking(_, _, _, _, _)
TraceDictBreaking(keys, tile_id_maps, cxyz, tile_id, axis) ==
    IF keys = <<>> THEN EmptyDict
    ELSE LET e == TraceEntry(Head(keys), tile_id_maps[Head(keys)], cxyz, tile_id, axis)
         IN  IF e = None THEN EmptyDict
             ELSE DictPut(TraceDictBreaking(Tail(keys), tile_id_maps, cxyz, tile_id, axis),
                          PyInt(Head(keys))[1], e[1])

\* get_trace lines 63-73: trace_dict after the loop over the sections `keys`
RECURSIVE TraceDict(_, _, _, _, _)
TraceDict(keys, tile_id_maps, cxyz, tile_id, axis) ==
    IF keys = <<>> THEN EmptyDict
    ELSE LET e == TraceEntry(Head(keys), tile_id_maps[Head(keys)], cxyz, tile_id, axis)
             rest == TraceDict(Tail(keys), tile_id_maps, cxyz, tile_id, axis)
         IN  IF e = None THEN rest ELSE DictPut(rest, PyInt(Head(keys))[1], e[1])

\* TraceOutlierDetector.get_trace: Some(trace_dict), or None when it is empty
get_trace(tile_id_maps, cxyz, tile_id, axis) ==
    LET trace_dict == TraceDict(KeysInOrder(DOMAIN tile_id_maps), tile_id_maps, cxyz,
                                tile_id, axis)
    IN  IF DOMAIN trace_dict = {} THEN None ELSE Some(trace_dict)

\* position code of a cell of a stacked [cx, cy] array: distinct per cell
PosCode(c, z, y, x) == ((c * 2 + z) * NumRows + y) * NumCols + x
NumCells == 4 * NumRows * NumCols

\* the stacked [cx, cy] array of a section with `cols` columns: `first` plus
\* the position code, raised by NumCells in the (c, z) planes of `spikes`
ShiftsOf(first, cols, spikes) ==
    [c \in 0..1 |-> [z \in 0..1 |-> [y \in 0..(NumRows - 1) |-> [x \in 0..(cols - 1) |->
        first + PosCode(c, z, y, x) + IF <<c, z>> \in spikes THEN NumCells ELSE 0]]]]

\* the tile grids of the trace and outlier runs
TdGrids == {GridOf(0, NoHole), GridOf(1, <<0, 0>>)}
TdKeys == {DecStr(k) : k \in 1..MaxArchSec}

\* archives for get_trace: any sections; a section's array differs from every
\* other section's and may have a column less than the grid
TraceTidArchives == UNION {[K -> TdGrids] : K \in SUBSET TdKeys}
TraceOffsetArchives ==
    UNION {{[k \in K |-> ShiftsOf(2 * NumCells * PyInt(k)[1], NumCols - narrow[k], {})] :
               narrow \in [K -> {0, 1}]} : K \in SUBSET TdKeys}

\* the tile ids get_trace is asked for
TraceTileIds == {-1, 1, 2, 4, 9}

TraceInit ==
    /\ inspect_dir \in {DictUnion(DictPut(EmptyDict, "all_offsets.npz", a),
                                   DictPut(EmptyDict, "all_tile_id_maps.npz", b)) :
                            a \in TraceOffsetArchives, b \in TraceTidArchives}
    /\ td_pc = "constructed"
    /\ cxyz_obj = None
    /\ tile_id_maps_obj = None
    /\ trace_call = None
    /\ run_args = None
    /\ win_split = "before"
    /\ tile_idx = 1
    /\ last_call = None

\* one call get_trace(tile_id, axis) on the loaded detector
GetTrace ==
    /\ td_pc = "loaded" /\ trace_call = None /\ run_args = None
    /\ \E tile_id \in TraceTileIds, axis \in 0..1 :
          trace_call' = Some([tile_id |-> tile_id, axis |-> axis,
                              ret |-> get_trace(tile_id_maps_obj[1], cxyz_obj[1], tile_id, axis)])
    /\ UNCHANGED <<td_pc, cxyz_obj, tile_id_maps_obj, run_args, win_split, tile_idx,
                   last_call, inspect_dir>>
    /\ UNCHANGED otherThanTd

-----------------------------------------------------------------------------
(* Windowed outlier detector: find_outliers, which identify_outliers.py   *)
(* imports from inspection_utils and whose definition is not part of the   *)
(* sources; it is modelled from the component design (4.5).                *)

\* the keys of a series in ascending order
RECURSIVE Ascending(_)
Ascending(S) == IF S = {} THEN <<>>
                ELSE LET m == CHOOSE k \in S : \A j \in S : k <= j
                     IN  <<m>> \o Ascending(S \ {m})

RECURSIVE SumSeq(_)
SumSeq(s) == IF s = <<>> THEN 0 ELSE Head(s) + SumSeq(Tail(s))

\* the comparison taken as >=
DeviatesNonStrict(v, w, threshold) ==
    LET n == Len(w)
        S == SumSeq(w)
        Q == SumSeq([i \in 1..n |-> w[i] * w[i]])
    IN  (n * v - S) * (n * v - S) >= threshold * threshold * (n * Q - S * S)

\* a window of zero standard deviation taken to flag its point
DeviatesZeroStdFlags(v, w, threshold) ==
    LET n == Len(w)
        S == SumSeq(w)
        Q == SumSeq([i \in 1..n |-> w[i] * w[i]])
    IN  \/ n * Q - S * S = 0
        \/ (n * v - S) * (n * v - S) > threshold * threshold * (n * Q - S * S)

\* abs(v - mean(w)) > threshold * std(w) for a non-empty list w, threshold >= 0,
\* std the population standard deviation: with n = len(w), S = sum(w) and
\* Q = sum of squares, both sides squared and multiplied by n * n
Deviates(v, w, threshold) ==
    LET n == Len(w)
        S == SumSeq(w)
        Q == SumSeq([i \in 1..n |-> w[i] * w[i]])
    IN  (n * v - S) * (n * v - S) > threshold * threshold * (n * Q - S * S)

\* the window wrapped around the ends of the series instead of cut there
DetectWrapping(series, window_before, window_after, threshold) ==
    LET keys == Ascending(DOMAIN series)
        n == Len(keys)
        At(i) == series[keys[((i - 1) % n) + 1]]
        Window(i) == [j \in 1..window_before |-> At(i - window_before + j - 1)]
                     \o [j \in 1..window_after |-> At(i + j)]
    IN  {keys[i] : i \in {j \in 1..n :
            /\ Window(j) # <<>>
            /\ Deviates(series[keys[j]], Window(j), threshold)}}

\* detect(series, window_before, window_after, threshold) of the design: the
\* window of position i is the up to window_before values before it and the up
\* to window_after values after it in key order; an empty window flags nothing
Detect(series, window_before, window_after, threshold) ==
    LET keys == Ascending(DOMAIN series)
        n == Len(keys)
        Max(a, b) == IF a > b THEN a ELSE b
        Min(a, b) == IF a < b THEN a ELSE b
        Window(i) == [j \in 1..(i - Max(1, i - window_before)) |->
                         series[keys[Max(1, i - window_before) + j - 1]]]
                     \o [j \in 1..(Min(n, i + window_after) - i) |-> series[keys[i + j]]]
    IN  {keys[i] : i \in {j \in 1..n :
            /\ Window(j) # <<>>
            /\ Deviates(series[keys[j]], Window(j), threshold)}}

\* the series the detector is run on: any sections of 1..MaxSec
DetSeries == UNION {[K -> SeriesValues] : K \in (SUBSET (1..MaxSec)) \ {{}}}

DetInit ==
    /\ det_pc = "idle"
    /\ det_in \in {Some(a) : a \in [series : DetSeries, window_before : 0..MaxWin,
                                     window_after : 0..MaxWin, threshold : Thresholds]}
    /\ det_out = {}

\* one call of the detector
DetectRun ==
    /\ det_pc = "idle"
    /\ det_pc' = "returned"
    /\ det_out' = Detect(det_in[1].series, det_in[1].window_before,
                         det_in[1].window_after, det_in[1].threshold)
    /\ UNCHANGED det_in
    /\ UNCHANGED otherThanDet

-----------------------------------------------------------------------------
(* Outlier run: main_get_cxyz_outliers, process_tile_id, store_outliers *)

\* the neighbour taken from the next column instead of the next row
get_vert_tile_id_right(tile_id_map, tile_id) ==
    IF tile_id < 0 THEN None
    ELSE LET found == WhereEqual(tile_id_map, tile_id)
         IN  IF found = <<>> THEN None
             ELSE IF IndexOk(found[1][2] + 1, Size(tile_id_map[0]))
                  THEN Some(tile_id_map[found[1][1]][found[1][2] + 1])
                  ELSE None

\* get_vert_tile_id: the tile id below tile_id in the grid, or None
get_vert_tile_id(tile_id_map, tile_id) ==
    IF tile_id < 0 THEN None
    ELSE LET found == WhereEqual(tile_id_map, tile_id)
         IN  IF found = <<>> THEN None
             ELSE IF IndexOk(found[1][1] + 1, Size(tile_id_map))
                  THEN Some(tile_id_map[found[1][1] + 1][found[1][2]])
                  ELSE None

\* how the one window size find_outliers is given is laid around a point:
\* all of it before the point, all of it after, or half and half
WinSplits == {"before", "after", "centred"}
WinBefore(win_size) == CASE win_split = "before" -> win_size
                         [] win_split = "after" -> 0
                         [] OTHER -> win_size \div 2
WinAfter(win_size) == win_size - WinBefore(win_size)

\* find_outliers(trace, win_size, thresh): the detector of the design on the
\* one window size it is given
find_outliers(trace, win_size, thresh) ==
    Detect(trace, WinBefore(win_size), WinAfter(win_size), thresh)

\* process_tile_id lines 37-39: the series of one vector component
TraceComponent(trace_dict, vec_component) ==
    [n \in DOMAIN trace_dict |-> trace_dict[n][1][vec_component + 1]]

\* a dict that keeps the value a key was first given
OrderedPutKeepingFirst(d, num, rec) ==
    IF \E i \in 1..Len(d) : d[i][1] = num
    THEN d
    ELSE Append(d, <<num, rec>>)

\* mapped_outliers[num] = rec on an insertion-ordered dict, kept as a list of
\* (key, value): a key already there keeps its place
OrderedPut(d, num, rec) ==
    IF \E i \in 1..Len(d) : d[i][1] = num
    THEN [i \in 1..Len(d) |-> IF d[i][1] = num THEN <<num, rec>> ELSE d[i]]
    ELSE Append(d, <<num, rec>>)

\* int(tid_map[y][x + 1]) raises IndexError unless
RightNeighbourOk(tid_map, y, x) == IndexOk(x + 1, Size(tid_map[y]))

\* the record with the axis and the vector component in each other's place
OutlierRecordComponentFirst(tid_map, axis, vec_component, y, x) ==
    <<vec_component, axis, y, x, tid_map[y][x],
      IF axis = 1 THEN get_vert_tile_id(tid_map, tid_map[y][x])
      ELSE Some(tid_map[y][x + 1])>>

\* process_tile_id lines 43-51: the record of one flagged section
OutlierRecord(tid_map, axis, vec_component, y, x) ==
    <<axis, vec_component, y, x, tid_map[y][x],
      IF axis = 1 THEN get_vert_tile_id(tid_map, tid_map[y][x])
      ELSE Some(tid_map[y][x + 1])>>

\* process_tile_id lines 43-51, the loop over the flagged sections `nums`
RECURSIVE MapOutliers(_, _, _, _, _, _)
MapOutliers(nums, acc, tile_id_maps, trace_dict, axis, vec_component) ==
    IF nums = <<>> \/ acc.raised THEN acc
    ELSE LET num == Head(nums)
             yx == trace_dict[num][2]
             tid_map == tile_id_maps[DecStr(num)]
         IN  IF axis = 0 /\ ~RightNeighbourOk(tid_map, yx[1], yx[2])
             THEN [acc EXCEPT !.raised = TRUE]
             ELSE MapOutliers(Tail(nums),
                              [acc EXCEPT !.mapped = OrderedPut(acc.mapped, num,
                                  OutlierRecord(tid_map, axis, vec_component, yx[1], yx[2]))],
                              tile_id_maps, trace_dict, axis, vec_component)

\* the (axis, vec_component) pairs in the order of the two loops
SeriesOrder == <<<<0, 0>>, <<0, 1>>, <<1, 0>>, <<1, 1>>>>

\* process_tile_id lines 32-51 from the i-th (axis, vec_component) pair on:
\* the mapped outliers, the series evaluated with what they flagged, and
\* whether an IndexError left the method
RECURSIVE ProcessSeries(_, _, _, _, _, _, _)
ProcessSeries(i, acc, tile_id_maps, cxyz, tile_id, win_size, thresh) ==
    IF i > Len(SeriesOrder) \/ acc.raised THEN acc
    ELSE LET axis == SeriesOrder[i][1]
             vec_component == SeriesOrder[i][2]
             trace_dict == get_trace(tile_id_maps, cxyz, tile_id, axis)
         IN  IF trace_dict = None
             THEN ProcessSeries(i + 1, acc, tile_id_maps, cxyz, tile_id, win_size, thresh)
             ELSE LET trace == TraceComponent(trace_dict[1], vec_component)
                      out_sec_nums == find_outliers(trace, win_size, thresh)
                      seen == [acc EXCEPT !.evaluated =
                                  DictPut(acc.evaluated, SeriesOrder[i],
                                          [trace |-> trace, flagged |-> out_sec_nums])]
                  IN  ProcessSeries(i + 1,
                                    MapOutliers(Ascending(out_sec_nums), seen, tile_id_maps,
                                                trace_dict[1], axis, vec_component),
                                    tile_id_maps, cxyz, tile_id, win_size, thresh)

\* process_tile_id lines 29-51
process_tile_id(tile_id_maps, cxyz, tile_id, n_before, n_after, thresh) ==
    ProcessSeries(1, [mapped |-> <<>>, evaluated |-> EmptyDict, raised |-> FALSE],
                  tile_id_maps, cxyz, tile_id, n_before + n_after, thresh)

OutHeader == <<"# Slice", "C", "Z", "Y", "X", "TileID", "TileID_nn">>

\* np.savetxt(f, fmt_outs, fmt="%s"): the line of np.array((k,) + v), every
\* field as str() gives it, the tile id of a neighbour not found as None
SaveTxtLine(k, v) ==
    [i \in 1..(1 + Len(v)) |->
        IF i = 1 THEN ToString(k)
        ELSE IF i = 1 + Len(v)
             THEN (IF v[Len(v)] = None THEN "None" ELSE ToString(v[Len(v)][1]))
             ELSE ToString(v[i - 1])]

\* the header line written by every call
store_outliers_header_every_call(dir, mapped_outliers) ==
    LET rows == [i \in 1..Len(mapped_outliers) |->
                    SaveTxtLine(mapped_outliers[i][1], mapped_outliers[i][2])]
    IN  DictPut(dir, "coarse_offset_outliers.txt",
                IF "coarse_offset_outliers.txt" \in DOMAIN dir
                THEN dir["coarse_offset_outliers.txt"] \o <<OutHeader>> \o rows
                ELSE <<OutHeader>> \o rows)

\* store_outliers that also rewrites the offsets archive without its raised planes
store_outliers_rewriting_offsets(dir, mapped_outliers) ==
    LET rows == [i \in 1..Len(mapped_outliers) |->
                    SaveTxtLine(mapped_outliers[i][1], mapped_outliers[i][2])]
    IN  DictPut(DictPut(dir, "coarse_offset_outliers.txt",
                        IF "coarse_offset_outliers.txt" \in DOMAIN dir
                        THEN dir["coarse_offset_outliers.txt"] \o rows
                        ELSE <<OutHeader>> \o rows),
                "all_offsets.npz",
                [k \in DOMAIN dir["all_offsets.npz"] |-> ShiftsOf(0, NumCols, {})])

\* store_outliers: the rows appended to coarse_offset_outliers.txt, under the
\* header line if the file is new
store_outliers(dir, mapped_outliers) ==
    LET rows == [i \in 1..Len(mapped_outliers) |->
                    SaveTxtLine(mapped_outliers[i][1], mapped_outliers[i][2])]
    IN  DictPut(dir, "coarse_offset_outliers.txt",
                IF "coarse_offset_outliers.txt" \in DOMAIN dir
                THEN dir["coarse_offset_outliers.txt"] \o rows
                ELSE <<OutHeader>> \o rows)

\* get_unique_tile_ids, in the order the run visits them
get_unique_tile_ids(tile_id_maps) ==
    Ascending({tile_id_maps[k][yx[1]][yx[2]] :
                  k \in DOMAIN tile_id_maps, yx \in GridCells(GridOf(0, NoHole))} \ {-1})

\* main_get_cxyz_outliers lines 115-120: the tile ids of the run
RunTileIds == IF run_args[1].trace_ids # <<>> THEN run_args[1].trace_ids
              ELSE get_unique_tile_ids(tile_id_maps_obj[1])

\* archives of an outlier run: every section has a grid and a full array; the
\* arrays agree but for the planes raised in at most one section
OutSpikes == {{}, {<<0, 0>>}, {<<1, 1>>}, {<<0, 1>>, <<1, 0>>}}
OutTidArchives == [TdKeys -> TdGrids]
OutOffsetArchives == {[k \in TdKeys |-> ShiftsOf(0, NumCols, IF k = s THEN spikes ELSE {})] :
                         s \in TdKeys, spikes \in OutSpikes}

\* the runs: windows that add up to MaxWin, one threshold, some or all tiles
OutWindows == {<<b, MaxWin - b>> : b \in 0..MaxWin}
OutThreshold == 2
OutTraceIds == {<<>>, <<1>>, <<2, 3>>, <<3, 3>>}

OutInit ==
    /\ inspect_dir \in {DictUnion(DictPut(EmptyDict, "all_offsets.npz", a),
                                   DictPut(EmptyDict, "all_tile_id_maps.npz", b)) :
                            a \in OutOffsetArchives, b \in OutTidArchives}
    /\ td_pc = "constructed"
    /\ cxyz_obj = None
    /\ tile_id_maps_obj = None
    /\ trace_call = None
    /\ run_args \in {Some([n_before |-> w[1], n_after |-> w[2], thresh |-> OutThreshold,
                            trace_ids |-> ids]) : w \in OutWindows, ids \in OutTraceIds}
    /\ win_split \in WinSplits
    /\ tile_idx = 1
    /\ last_call = None

\* one call td.process_tile_id(tile_id, n_before, n_after, thresh) of the run,
\* store_outliers included
ProcessTileId ==
    /\ td_pc = "loaded" /\ run_args # None
    /\ tile_idx <= Len(RunTileIds)
    /\ \E r \in {process_tile_id(tile_id_maps_obj[1], cxyz_obj[1], RunTileIds[tile_idx],
                                   run_args[1].n_before, run_args[1].n_after,
                                   run_args[1].thresh)} :
           /\ last_call' = Some([tile_id |-> RunTileIds[tile_idx], mapped |-> r.mapped,
                                  evaluated |-> r.evaluated, raised |-> r.raised,
                                  stored |-> IF r.raised THEN <<>> ELSE r.mapped])
           /\ inspect_dir' = IF ~r.raised /\ r.mapped # <<>>
                             THEN store_outliers(inspect_dir, r.mapped)
                             ELSE inspect_dir
           /\ td_pc' = IF r.raised THEN "raised"
                       ELSE IF tile_idx = Len(RunTileIds) THEN "done" ELSE "loaded"
    /\ tile_idx' = tile_idx + 1
    /\ UNCHANGED <<cxyz_obj, tile_id_maps_obj, trace_call, run_args, win_split>>
    /\ UNCHANGED otherThanTd

\* main_get_cxyz_outliers called a second time with the same parameters after
\* the first run ended, the archives unchanged: a new TraceOutlierDetector
OutRunAgain ==
    /\ td_pc \in {"done", "raised"} /\ run_args # None /\ run_no = 1
    /\ run_no' = 2
    /\ first_dir' = Some(inspect_dir)
    /\ td_pc' = "constructed"
    /\ cxyz_obj' = None
    /\ tile_id_maps_obj' = None
    /\ tile_idx' = 1
    /\ last_call' = None
    /\ UNCHANGED <<trace_call, run_args, win_split, inspect_dir>>
    /\ UNCHANGED <<aggVars, infVars, detVars, gridVars, idsVars, stageVars>>

\* the entry points on an _inspect directory that may lack either archive
MissingInit ==
    /\ inspect_dir \in {DictUnion(a, b) :
                            a \in FilesOf("all_offsets.npz", OutOffsetArchives),
                            b \in FilesOf("all_tile_id_maps.npz", OutTidArchives)}
    /\ td_pc = "constructed"
    /\ cxyz_obj = None
    /\ tile_id_maps_obj = None
    /\ trace_call = None
    /\ run_args \in {Some([n_before |-> MaxWin, n_after |-> 0, thresh |-> OutThreshold,
                            trace_ids |-> ids]) : ids \in OutTraceIds}
    /\ win_split = "before"
    /\ tile_idx = 1
    /\ last_call = None
    /\ inf_pc = "idle"
    /\ inf_ret = None

-----------------------------------------------------------------------------
(* Grid lookups called on their own: get_vert_tile_id, get_tid_idx and the
   lookup of get_trace *)

\* get_tid_idx: the (y, x) of tile_id in the grid, or None
get_tid_idx(tile_id_map, tile_id) ==
    LET coords == WhereEqual(tile_id_map, tile_id)
    IN  IF coords = <<>> THEN None
        ELSE IF tile_id = -1 THEN None
        ELSE Some(coords[1])

\* an offsets array of the shape of a grid
ShiftsLike(tile_id_map) ==
    [c \in 0..1 |-> [z \in 0..1 |->
        [y \in DOMAIN tile_id_map |-> [x \in DOMAIN tile_id_map[0] |-> 0]]]]

\* the yx get_trace keeps for a section whose map is the grid, or None if it
\* leaves the section out
TraceYX(tile_id_map, tile_id) ==
    LET trace_dict == get_trace(DictPut(EmptyDict, DecStr(1), tile_id_map),
                                DictPut(EmptyDict, DecStr(1), ShiftsLike(tile_id_map)),
                                tile_id, 0)
    IN  IF trace_dict = None THEN None ELSE Some(trace_dict[1][1][2])

\* the grid of the docstring of get_vert_tile_id
ExampleGrid == [y \in 0..2 |-> [x \in 0..2 |-> 3 * y + x + 1]]

\* the grids the lookups are called on: every grid of the acquisition's shape
\* over holes and the tile ids 0..MaxTile, duplicates included, and the example
LookupGrids ==
    [0..(NumRows - 1) -> [0..(NumCols - 1) -> -1..MaxTile]] \cup {ExampleGrid}
LookupTileIds == (-1..(MaxTile + 1)) \cup {5, 9}

GridInit ==
    /\ grid_in \in {Some([tile_id_map |-> g, tile_id |-> t]) :
                       g \in LookupGrids, t \in LookupTileIds}
    /\ grid_out = None

\* a call get_vert_tile_id(tile_id_map, tile_id)
GetVertTileId ==
    /\ grid_in # None /\ grid_out = None
    /\ grid_out' = Some([fn |-> "get_vert_tile_id",
                          ret |-> get_vert_tile_id(grid_in[1].tile_id_map, grid_in[1].tile_id)])
    /\ UNCHANGED grid_in
    /\ UNCHANGED otherThanGrid

\* a call get_tid_idx(tile_id_map, tile_id)
GetTidIdx ==
    /\ grid_in # None /\ grid_out = None
    /\ grid_out' = Some([fn |-> "get_tid_idx",
                          ret |-> get_tid_idx(grid_in[1].tile_id_map, grid_in[1].tile_id)])
    /\ UNCHANGED grid_in
    /\ UNCHANGED otherThanGrid

\* a call get_trace(tile_id, 0) over one section whose map is the grid
LocateInTrace ==
    /\ grid_in # None /\ grid_out = None
    /\ grid_out' = Some([fn |-> "get_trace",
                          ret |-> TraceYX(grid_in[1].tile_id_map, grid_in[1].tile_id)])
    /\ UNCHANGED grid_in
    /\ UNCHANGED otherThanGrid

-----------------------------------------------------------------------------
(* Tile-id sets of an archive: get_unique_tile_ids, get_tile_ids_set *)

\* get_tile_ids_set: np.load fails on a missing archive and tid_maps is None,
\* whose .values() raises; set.remove(-1) raises KeyError when no grid has a hole
get_tile_ids_set(dir) ==
    LET tid_maps == IF "all_tile_id_maps.npz" \in DOMAIN dir
                    THEN Some(dir["all_tile_id_maps.npz"]) ELSE None
    IN  IF tid_maps = None THEN [raised |-> TRUE, value |-> {}]
        ELSE LET tile_ids == {tid_maps[1][k][yx[1]][yx[2]] :
                                 k \in DOMAIN tid_maps[1], yx \in GridCells(GridOf(0, NoHole))}
             IN  IF -1 \notin tile_ids THEN [raised |-> TRUE, value |-> {}]
                 ELSE [raised |-> FALSE, value |-> tile_ids \ {-1}]

\* the grids of the archives the sets are taken of: with and without a hole
IdsGrids == TdGrids \cup {GridOf(2, NoHole), GridOf(0, <<1, 1>>)}
IdsTidArchives == UNION {[K -> IdsGrids] : K \in SUBSET TdKeys}

IdsInit ==
    /\ inspect_dir \in {DictUnion(DictPut(EmptyDict, "all_offsets.npz",
                                           [k \in TdKeys |-> ShiftsOf(0, NumCols, {})]), b) :
                            b \in FilesOf("all_tile_id_maps.npz", IdsTidArchives)}
    /\ td_pc = "constructed"
    /\ cxyz_obj = None
    /\ tile_id_maps_obj = None
    /\ trace_call = None
    /\ run_args = None
    /\ win_split = "before"
    /\ tile_idx = 1
    /\ last_call = None
    /\ unique_ret = None
    /\ ids_set_ret = None

\* a call get_unique_tile_ids() on the loaded detector
GetUniqueTileIds ==
    /\ td_pc = "loaded" /\ unique_ret = None
    /\ unique_ret' = Some(Range(get_unique_tile_ids(tile_id_maps_obj[1])))
    /\ UNCHANGED <<ids_set_ret, inspect_dir, tdVars>>
    /\ UNCHANGED <<aggVars, infVars, detVars, gridVars, rerunVars, stageVars>>

\* a call get_tile_ids_set(path) on the _inspect directory
GetTileIdsSet ==
    /\ ids_set_ret = None
    /\ ids_set_ret' = Some(get_tile_ids_set(inspect_dir))
    /\ UNCHANGED <<unique_ret, inspect_dir, tdVars>>
    /\ UNCHANGED <<aggVars, infVars, detVars, gridVars, rerunVars, stageVars>>

-----------------------------------------------------------------------------
(* s01_parse_data.section_in_range *)

otherThanStage == <<aggVars, inspect_dir, infVars, detVars, tdVars, gridVars, idsVars, rerunVars>>

\* name.split("_"): the list of the parts between the underscores
RECURSIVE SplitUnderscore(_)
SplitUnderscore(name) ==
    IF name = <<>> THEN << <<>> >>
    ELSE IF Head(name) = "_" THEN << <<>> >> \o SplitUnderscore(Tail(name))
    ELSE LET rest == SplitUnderscore(Tail(name))
         IN  << <<Head(name)>> \o rest[1] >> \o Tail(rest)

\* s[1:]
DropFirst(s) == IF s = <<>> THEN <<>> ELSE Tail(s)

\* section_in_range with the upper bound taken exclusive
section_in_range_exclusive_end(name, start, end) ==
    LET parts == SplitUnderscore(name)
    IN  IF Len(parts) # 2 THEN None
        ELSE LET z == PyInt(DropFirst(parts[1]))
             IN  IF z = None THEN None
                 ELSE Some(start <= z[1] /\ z[1] < end)

\* section_in_range: Some(bool); None stands for the ValueError of the
\* unpacking of the split or of int()
section_in_range(name, start, end) ==
    LET parts == SplitUnderscore(name)
    IN  IF Len(parts) # 2 THEN None
        ELSE LET z == PyInt(DropFirst(parts[1]))
             IN  IF z = None THEN None
                 ELSE Some(start <= z[1] /\ z[1] <= end)

\* section numbers, grid numbers and range bounds of the calls
RangeSecNums == {7, 99, 100, 101}
RangeGridNums == {0, 1}
RangeBounds == {90, 99, 100, 101, 200}

\* names of the form s<z>_g<n>, one with a zero-padded number, and names that
\* are not of that form
ZeroPaddedName == <<"s", "0", "9", "9", "_", "g", "0">>
MalformedNames == {<<"s", "1", "0", "0">>, <<"s", "1", "_", "g", "0", "_", "x">>,
                   <<"s", "_", "g", "0">>}
RangeNames == {SecName(z, g) : z \in RangeSecNums, g \in RangeGridNums}
                  \cup {ZeroPaddedName} \cup MalformedNames

RangeInit ==
    /\ range_in \in {<<name, start, end>> :
                        name \in RangeNames, start \in RangeBounds, end \in RangeBounds}
    /\ range_out = None

\* a call section_in_range(name, start, end)
SectionInRange ==
    /\ range_in # None /\ range_out = None
    /\ range_out' = Some(section_in_range(range_in[1], range_in[2], range_in[3]))
    /\ UNCHANGED <<range_in, parseVars, maskVars>>
    /\ UNCHANGED otherThanStage

-----------------------------------------------------------------------------
(* parse_sections.py main: the chunk files of the section directories *)

\* sorted(...) left out: the glob order kept
sorted_not_sorting(paths) == paths

\* sorted(section_paths, key=section_id): a stable sort, by insertion of each
\* path behind the paths whose key is not larger
RECURSIVE InsertByKey(_, _)
InsertByKey(x, done) ==
    IF done = <<>> THEN <<x>>
    ELSE IF section_id(Head(done)) <= section_id(x)
         THEN <<Head(done)>> \o InsertByKey(x, Tail(done))
         ELSE <<x>> \o done
RECURSIVE SortFrom(_, _)
SortFrom(paths, done) ==
    IF paths = <<>> THEN done
    ELSE SortFrom(Tail(paths), InsertByKey(Head(paths), done))
sorted_by_section_id(paths) == SortFrom(paths, <<>>)

\* list(filter(lambda x: start_section <= section_id(x) <= end_section, ...))
RECURSIVE FilterInRange(_, _, _)
FilterInRange(paths, start_section, end_section) ==
    IF paths = <<>> THEN <<>>
    ELSE (IF start_section <= section_id(Head(paths))
                /\ section_id(Head(paths)) <= end_section
          THEN <<Head(paths)>> ELSE <<>>)
         \o FilterInRange(Tail(paths), start_section, end_section)

\* main lines 17-24: section_paths after the sort and the filter
ParsedSectionPaths ==
    FilterInRange(sorted_by_section_id(glob_paths),
                  wf_config[1].start_section, wf_config[1].end_section)

\* section_paths[a : b] for 0 <= a <= b (0-based, b exclusive, clamped)
PySlice(s, a, b) == SubSeq(s, a + 1, IF b < Len(s) THEN b ELSE Len(s))

\* the directories of the section folder and the configurations of the runs
ParseSecNums == {2, 10, 11}
ParseDirNames == {SecName(2, 1), SecName(2, 2), SecName(10, 1), SecName(11, 1)}
ChunkSizes == {-1, 0, 1, 2, 3}
GlobResults ==
    {s \in UNION {[1..n -> ParseDirNames] : n \in 0..Cardinality(ParseDirNames)} :
        \A i, j \in 1..Len(s) : i # j => s[i] # s[j]}

ParseInit ==
    /\ glob_paths \in GlobResults
    /\ wf_config \in {Some([start_section |-> a, end_section |-> b, chunk_size |-> c]) :
                         a \in {2, 10}, b \in {10, 11}, c \in ChunkSizes}
    /\ parse_pc = "start"
    /\ chunk_files = EmptyDict

\* main line 25, range(0, len(section_paths), chunk_size): ValueError for a
\* zero step
ParseRange ==
    /\ parse_pc = "start"
    /\ parse_pc' = IF wf_config[1].chunk_size = 0 THEN "raised" ELSE "writing"
    /\ UNCHANGED <<glob_paths, wf_config, chunk_files, rangeVars, maskVars>>
    /\ UNCHANGED otherThanStage

\* main lines 25-27: one iteration of the loop, chunk_{i}.yaml written
ParseWriteChunk ==
    /\ parse_pc = "writing"
    /\ LET i == Cardinality(DOMAIN chunk_files)
           chunk == i * wf_config[1].chunk_size
       IN  /\ wf_config[1].chunk_size > 0 /\ chunk < Len(ParsedSectionPaths)
           /\ chunk_files' = DictPut(chunk_files, i,
                  PySlice(ParsedSectionPaths, chunk, chunk + wf_config[1].chunk_size))
    /\ UNCHANGED <<glob_paths, wf_config, parse_pc, rangeVars, maskVars>>
    /\ UNCHANGED otherThanStage

\* main: the range is exhausted (at once for a negative step)
ParseDone ==
    /\ parse_pc = "writing"
    /\ \/ wf_config[1].chunk_size < 0
       \/ Cardinality(DOMAIN chunk_files) * wf_config[1].chunk_size >= Len(ParsedSectionPaths)
    /\ parse_pc' = "done"
    /\ UNCHANGED <<glob_paths, wf_config, chunk_files, rangeVars, maskVars>>
    /\ UNCHANGED otherThanStage

-----------------------------------------------------------------------------
(* Mask computation: main of create_masks.py and create_simple_smear_masks.py *)

MaskScripts == {"create_masks", "create_simple_smear_masks"}

\* config.section_paths of a chunk: up to MaxMaskPaths distinct directories
MaxMaskPaths == 3
MaskSectionPaths ==
    {s \in UNION {[1..n -> ParseDirNames] : n \in 0..MaxMaskPaths} :
        \A i, j \in 1..Len(s) : i # j => s[i] # s[j]}

MaskInit ==
    /\ mask_script \in MaskScripts
    /\ mask_paths \in MaskSectionPaths
    /\ mask_i = 1
    /\ masks_computed = <<>>
    /\ done_sections = <<>>
    /\ done_file = None

\* one iteration of the loop of main: compute_masks(section_path, ...), and in
\* create_simple_smear_masks.py done_sections.append(str(section_path))
MaskProcessSection ==
    /\ done_file = None
    /\ mask_i <= Len(mask_paths)
    /\ masks_computed' = Append(masks_computed, mask_paths[mask_i])
    /\ done_sections' = IF mask_script = "create_simple_smear_masks"
                        THEN Append(done_sections, mask_paths[mask_i])
                        ELSE done_sections
    /\ mask_i' = mask_i + 1
    /\ UNCHANGED <<mask_script, mask_paths, done_file, rangeVars, parseVars>>
    /\ UNCHANGED otherThanStage

\* after the loop: yaml.safe_dump(done_sections, f) into the done-sections file
MaskWriteDone ==
    /\ done_file = None
    /\ mask_i > Len(mask_paths)
    /\ done_file' = Some(done_sections)
    /\ UNCHANGED <<mask_script, mask_paths, mask_i, masks_computed, done_sections,
                   rangeVars, parseVars>>
    /\ UNCHANGED otherThanStage

-----------------------------------------------------------------------------
(* Specifications *)

vars == <<aggVars, inspect_dir, infVars, detVars, tdVars, gridVars, idsVars, rerunVars, stageVars>>

AggIdle ==
    /\ section_dirs = <<>>
    /\ dir_files = EmptyDict
    /\ agg_pc = "idle"
    /\ agg_i = 1
    /\ offsets = EmptyDict
    /\ offsets_failed = <<>>
    /\ maps = EmptyDict
    /\ maps_failed = <<>>

InfIdle == inf_pc = "idle" /\ inf_ret = None

DetIdle == det_pc = "idle" /\ det_in = None /\ det_out = {}

GridIdle == grid_in = None /\ grid_out = None
IdsIdle == unique_ret = None /\ ids_set_ret = None
FirstRun == run_no = 1 /\ first_dir = None
RangeIdle == range_in = None /\ range_out = None
ParseIdle ==
    /\ glob_paths = <<>>
    /\ wf_config = None
    /\ parse_pc = "idle"
    /\ chunk_files = EmptyDict
MaskIdle ==
    /\ mask_script = "create_masks"
    /\ mask_paths = <<>>
    /\ mask_i = 1
    /\ masks_computed = <<>>
    /\ done_sections = <<>>
    /\ done_file = None
StageIdle == RangeIdle /\ ParseIdle /\ MaskIdle

TdIdle ==
    /\ td_pc = "idle"
    /\ cxyz_obj = None
    /\ tile_id_maps_obj = None
    /\ trace_call = None
    /\ run_args = None
    /\ win_split = "before"
    /\ tile_idx = 1
    /\ last_call = None

\* backup_coarse_offsets.py main up to the two backups
InitAgg == AggInit /\ InfIdle /\ DetIdle /\ TdIdle /\ GridIdle /\ IdsIdle /\ FirstRun /\ StageIdle
SpecAgg == InitAgg /\ [][AggNext]_vars

\* locate_inf_vals on aggregated archives
InitInf == InfInit /\ AggIdle /\ DetIdle /\ TdIdle /\ GridIdle /\ IdsIdle /\ FirstRun /\ StageIdle
InfNext == LocateInfVals
SpecInf == InitInf /\ [][InfNext]_vars

\* the detector on a series of its own
InitDet == DetInit /\ AggIdle /\ inspect_dir = EmptyDict /\ InfIdle /\ TdIdle
           /\ GridIdle /\ IdsIdle /\ FirstRun /\ StageIdle
DetNext == DetectRun
SpecDet == InitDet /\ [][DetNext]_vars

\* get_trace on a loaded TraceOutlierDetector
InitTrace == TraceInit /\ AggIdle /\ InfIdle /\ DetIdle /\ GridIdle /\ IdsIdle /\ FirstRun /\ StageIdle
TraceNext ==
    \/ LoadData
    \/ GetTrace
SpecTrace == InitTrace /\ [][TraceNext]_vars

\* the aggregation run twice over the same section directories
AggTwiceNext ==
    \/ AggOffsetsMissing
    \/ AggOffsetsLoad
    \/ BackupCoarseOffsetsSave
    \/ AggMapsMissing
    \/ AggMapsLoad
    \/ BackupTileIdMapsSave
    \/ AggRunAgain
SpecAggTwice == InitAgg /\ [][AggTwiceNext]_vars

\* the outlier run and the locator on a directory that may lack an archive
InitMissing == MissingInit /\ AggIdle /\ DetIdle /\ GridIdle /\ IdsIdle /\ FirstRun /\ StageIdle
MissingNext ==
    \/ LoadData
    \/ ProcessTileId
    \/ LocateInfVals
SpecMissing == InitMissing /\ [][MissingNext]_vars

\* the grid lookups, each called once on a grid and a tile id
InitGrid == GridInit /\ AggIdle /\ inspect_dir = EmptyDict /\ InfIdle /\ DetIdle /\ TdIdle
            /\ IdsIdle /\ FirstRun /\ StageIdle
GridNext ==
    \/ GetVertTileId
    \/ GetTidIdx
    \/ LocateInTrace
SpecGrid == InitGrid /\ [][GridNext]_vars

\* the two ways to the set of tile ids of an archive
InitIds == IdsInit /\ AggIdle /\ InfIdle /\ DetIdle /\ GridIdle /\ FirstRun /\ StageIdle
IdsNext ==
    \/ LoadData
    \/ GetUniqueTileIds
    \/ GetTileIdsSet
SpecIds == InitIds /\ [][IdsNext]_vars

\* a run of main_get_cxyz_outliers
InitOut == OutInit /\ AggIdle /\ InfIdle /\ DetIdle /\ GridIdle /\ IdsIdle /\ FirstRun /\ StageIdle
OutNext ==
    \/ LoadData
    \/ ProcessTileId
SpecOut == InitOut /\ [][OutNext]_vars

\* main_get_cxyz_outliers run twice over the same archives
OutTwiceNext ==
    \/ LoadData
    \/ ProcessTileId
    \/ OutRunAgain
SpecOutTwice == InitOut /\ [][OutTwiceNext]_vars

\* section_in_range called once on every name and range
InitRange == RangeInit /\ ParseIdle /\ MaskIdle /\ AggIdle /\ inspect_dir = EmptyDict
             /\ InfIdle /\ DetIdle /\ TdIdle /\ GridIdle /\ IdsIdle /\ FirstRun
RangeNext ==
    \/ SectionInRange
SpecRange == InitRange /\ [][RangeNext]_vars

\* parse_sections main on every glob result and configuration
InitParse == ParseInit /\ RangeIdle /\ MaskIdle /\ AggIdle /\ inspect_dir = EmptyDict
             /\ InfIdle /\ DetIdle /\ TdIdle /\ GridIdle /\ IdsIdle /\ FirstRun
ParseNext ==
    \/ ParseRange
    \/ ParseWriteChunk
    \/ ParseDone
SpecParse == InitParse /\ [][ParseNext]_vars

\* a mask-computation run of either script on every chunk
InitMask == MaskInit /\ RangeIdle /\ ParseIdle /\ AggIdle /\ inspect_dir = EmptyDict
            /\ InfIdle /\ DetIdle /\ TdIdle /\ GridIdle /\ IdsIdle /\ FirstRun
MaskNext ==
    \/ MaskProcessSection
    \/ MaskWriteDone
SpecMask == InitMask /\ [][MaskNext]_vars

-----------------------------------------------------------------------------
(* Claims about the aggregation *)

OffsetsReturned == agg_pc \in {"maps", "done"}
MapsReturned == agg_pc = "done"
KeyOfDir(section_path) == PyStr(get_section_num(section_path))

\* C1: when aggregate_coarse_offsets (aggregate_tile_id_maps) has returned,
\* every directory of the list that lacks cx_cy.json (tile_id_map.json) has its
\* label in the returned missing list and no key in the returned mapping, and
\* every other directory of the list was processed into the mapping.
C1_MissingListedAndNotInArchive ==
    /\ OffsetsReturned =>
         \A d \in Range(section_dirs) :
            IF dir_files[d].cx = "absent"
            THEN /\ MissingLabel(d) \in Range(offsets_failed)
                 /\ KeyOfDir(d) \notin DOMAIN offsets
            ELSE KeyOfDir(d) \in DOMAIN offsets
    /\ MapsReturned =>
         \A d \in Range(section_dirs) :
            IF dir_files[d].tid = "absent"
            THEN /\ MissingLabel(d) \in Range(maps_failed)
                 /\ KeyOfDir(d) \notin DOMAIN maps
            ELSE KeyOfDir(d) \in DOMAIN maps

\* C2: an unparseable offset or tile-id-map file of one section never aborts
\* the aggregation: it does not raise, and once it has completed every section
\* with a parseable file is a key of the resulting mapping.
C2_UnparseableFileDoesNotAbort ==
    /\ agg_pc # "raised"
    /\ agg_pc = "done" =>
         \A d \in Range(section_dirs) :
            /\ dir_files[d].cx = "ok" => KeyOfDir(d) \in DOMAIN offsets
            /\ dir_files[d].tid = "ok" => KeyOfDir(d) \in DOMAIN maps

-----------------------------------------------------------------------------
(* Claims about the degenerate-value locator *)

LocatorReturnedList == inf_pc = "returned" /\ inf_ret # None

\* C4: the list locate_inf_vals returns holds exactly one record (section
\* number, full coordinate) for every +inf or -inf scalar of every section of
\* the archive, and no record for any other scalar or section.
C4_OneRecordPerInfiniteScalar ==
    LocatorReturnedList =>
        LET recs == inf_ret[1]
            cxyz == inspect_dir["all_offsets.npz"]
        IN  /\ \A k \in InfSecNums : \A crd \in TensorCoords :
                  Cardinality({i \in 1..Len(recs) :
                                  recs[i][1] = k /\ SubSeq(recs[i], 2, 5) = crd})
                    = IF /\ DecStr(k) \in DOMAIN cxyz
                         /\ cxyz[DecStr(k)][crd[1]][crd[2]][crd[3]][crd[4]] \in {PosInf, NegInf}
                      THEN 1 ELSE 0
            /\ \A i \in 1..Len(recs) :
                  recs[i][1] \in InfSecNums /\ SubSeq(recs[i], 2, 5) \in TensorCoords

\* a run over both sections, one without infinite values, the other with a
\* +inf and a -inf
C4_Witness ==
    /\ LocatorReturnedList
    /\ DOMAIN inspect_dir["all_offsets.npz"] = {DecStr(k) : k \in InfSecNums}
    /\ Len(inf_ret[1]) = 2
    /\ inf_ret[1][1][1] = inf_ret[1][2][1]
    /\ \E i, j \in 1..2 :
          LET t == inspect_dir["all_offsets.npz"][DecStr(inf_ret[1][1][1])]
          IN  /\ TensorAt(t, SubSeq(inf_ret[1][i], 2, 5)) = PosInf
              /\ TensorAt(t, SubSeq(inf_ret[1][j], 2, 5)) = NegInf

\* C5: with the tile-id-map archive present, every record's primary tile id is
\* the map cell at the record's (row, col); its neighbour id is the cell at
\* (row, col + 1) when the leading coordinate component is 0 and the cell at
\* (row + 1, col) otherwise, or not-found when that cell is outside the grid.
C5_TileIdPairOfCoordinate ==
    (LocatorReturnedList /\ "all_tile_id_maps.npz" \in DOMAIN inspect_dir) =>
        \A i \in 1..Len(inf_ret[1]) :
            LET rec == inf_ret[1][i]
                grid == inspect_dir["all_tile_id_maps.npz"][DecStr(rec[1])]
                row == rec[4]
                col == rec[5]
            IN  /\ Len(rec) = 7
                /\ rec[6] = Some(grid[row][col])
                /\ rec[7] = IF rec[2] = 0
                            THEN IF col + 1 < NumCols THEN Some(grid[row][col + 1]) ELSE None
                            ELSE IF row + 1 < NumRows THEN Some(grid[row + 1][col]) ELSE None

\* a report with a horizontal pair inside the grid and a vertical pair whose
\* neighbour is outside it
C5_Witness ==
    /\ LocatorReturnedList /\ "all_tile_id_maps.npz" \in DOMAIN inspect_dir
    /\ \E i, j \in 1..Len(inf_ret[1]) :
          /\ inf_ret[1][i][2] = 0 /\ inf_ret[1][i][7] # None
          /\ inf_ret[1][j][2] = 1 /\ inf_ret[1][j][7] = None

\* C6: a run of locate_inf_vals leaves every file of _inspect other than
\* inf_vals.txt as it was - the offsets archive and the tile-id-map archive
\* included - and creates no file but inf_vals.txt.
C6_LocatorStep ==
    inf_pc' # inf_pc =>
        /\ (DOMAIN inspect_dir') \ {"inf_vals.txt"} = (DOMAIN inspect_dir) \ {"inf_vals.txt"}
        /\ \A name \in (DOMAIN inspect_dir) \ {"inf_vals.txt"} :
              inspect_dir'[name] = inspect_dir[name]
C6_LocatorOnlyWritesReport == [][C6_LocatorStep]_vars

\* a storing run that found infinite values
C6_Witness ==
    /\ LocatorReturnedList
    /\ "inf_vals.txt" \in DOMAIN inspect_dir
    /\ Len(inspect_dir["inf_vals.txt"]) > 1
    /\ "all_tile_id_maps.npz" \in DOMAIN inspect_dir

-----------------------------------------------------------------------------
(* Claims about the trace extractor *)

TraceReturned == td_pc = "loaded" /\ trace_call # None

\* the loaded sections whose tile-id map contains tile_id
SectionsContaining(tile_id) ==
    {PyInt(k)[1] : k \in {j \in DOMAIN tile_id_maps_obj[1] :
        \E yx \in GridCells(tile_id_maps_obj[1][j]) :
            tile_id_maps_obj[1][j][yx[1]][yx[2]] = tile_id}}

\* the cell of section n where tile_id is located: the first in row-major order
LocatedAt(n, tile_id) ==
    LET tile_map == tile_id_maps_obj[1][DecStr(n)]
    IN  CHOOSE yx \in GridCells(tile_map) :
            /\ tile_map[yx[1]][yx[2]] = tile_id
            /\ \A c \in GridCells(tile_map) :
                  tile_map[c[1]][c[2]] = tile_id =>
                      c[1] > yx[1] \/ (c[1] = yx[1] /\ c[2] >= yx[2])

\* section n has an array in the offsets archive, and the array has the cell
HasShiftAt(n, yx) ==
    /\ DecStr(n) \in DOMAIN cxyz_obj[1]
    /\ yx[1] \in DOMAIN cxyz_obj[1][DecStr(n)][0][0]
    /\ yx[2] \in DOMAIN cxyz_obj[1][DecStr(n)][0][0][0]

\* C7 as stated: the key set of the trace get_trace(tile_id, axis) returns is
\* exactly the set of loaded sections whose tile-id map contains tile_id, and
\* it returns None only if no section's map contains tile_id.
C7_KeysAreSectionsContainingTile ==
    TraceReturned =>
        LET c == trace_call[1]
        IN  /\ c.ret # None => DOMAIN c.ret[1] = SectionsContaining(c.tile_id)
            /\ c.ret = None => SectionsContaining(c.tile_id) = {}

\* C7 amended: the key set of the trace get_trace(tile_id, axis) returns is
\* exactly the set of loaded sections whose tile-id map contains tile_id and
\* whose array is present in the offsets archive and covers the cell where the
\* tile is located; it returns None exactly when that set is empty.
C7_KeysAreReadableSectionsContainingTile ==
    TraceReturned =>
        LET c == trace_call[1]
            readable == {n \in SectionsContaining(c.tile_id) :
                            HasShiftAt(n, LocatedAt(n, c.tile_id))}
        IN  /\ c.ret # None => DOMAIN c.ret[1] = readable
            /\ c.ret = None <=> readable = {}

\* a trace that leaves out a section holding the tile, after a section it keeps
C7_Witness ==
    /\ TraceReturned
    /\ trace_call[1].ret # None
    /\ \E n \in SectionsContaining(trace_call[1].tile_id), m \in DOMAIN trace_call[1].ret[1] :
          n \notin DOMAIN trace_call[1].ret[1] /\ m > n

\* C8: for every section of a trace returned by get_trace(tile_id, axis), the
\* stored vector is that section's array read at channel axis and the cell
\* (row, col) where tile_id is located in the section's tile-id map, and the
\* stored coordinate is that (row, col).
C8_VectorReadAtTileCell ==
    (TraceReturned /\ trace_call[1].ret # None) =>
        LET c == trace_call[1]
        IN  \A n \in DOMAIN c.ret[1] :
                LET yx == LocatedAt(n, c.tile_id)
                    arr == cxyz_obj[1][DecStr(n)]
                IN  /\ c.ret[1][n][2] = yx
                    /\ c.ret[1][n][1] = <<arr[c.axis][0][yx[1]][yx[2]],
                                          arr[c.axis][1][yx[1]][yx[2]]>>

\* a trace over two sections that hold the tile in different cells, one of
\* them off the diagonal of the grid
C8_Witness ==
    /\ TraceReturned
    /\ trace_call[1].ret # None
    /\ trace_call[1].axis = 1
    /\ \E n, m \in DOMAIN trace_call[1].ret[1] :
          /\ trace_call[1].ret[1][n][2] # trace_call[1].ret[1][m][2]
          /\ trace_call[1].ret[1][n][2][1] # trace_call[1].ret[1][n][2][2]

-----------------------------------------------------------------------------
(* Claims about the windowed outlier detector *)

RECURSIVE SetSum(_, _)
SetSum(S, f) == IF S = {} THEN 0
                ELSE LET k == CHOOSE j \in S : TRUE
                     IN  f[k] + SetSum(S \ {k}, f)

\* the sections of the window of section k: the window_before nearest observed
\* sections before it and the window_after nearest after it
WindowOf(series, k, window_before, window_after) ==
    {j \in DOMAIN series :
        \/ j < k /\ Cardinality({m \in DOMAIN series : j < m /\ m < k}) < window_before
        \/ j > k /\ Cardinality({m \in DOMAIN series : k < m /\ m < j}) < window_after}

\* abs(series[k] - mean) > threshold * std over the window W, as integers
FarFromWindow(series, k, W, threshold) ==
    LET n == Cardinality(W)
        S == SetSum(W, series)
        Q == SetSum(W, [j \in DOMAIN series |-> series[j] * series[j]])
        d == n * series[k] - S
    IN  d * d > threshold * threshold * (n * Q - S * S)

ExampleSeries == [k \in 1..5 |-> IF k = 5 THEN 10 ELSE 0]
ExampleCall == [series |-> ExampleSeries, window_before |-> 2,
                window_after |-> 0, threshold |-> 2]

\* C10: the detector flags a section iff its value is further than threshold
\* standard deviations from the mean of its window, the window not containing
\* the section itself; the series {1:0, 2:0, 3:0, 4:0, 5:10} with
\* window_before = 2, window_after = 0, threshold = 2 flags section 5 only.
C10_FlagIffDeviates ==
    det_pc = "returned" =>
        LET a == det_in[1]
        IN  /\ det_out \subseteq DOMAIN a.series
            /\ \A k \in DOMAIN a.series :
                  LET W == WindowOf(a.series, k, a.window_before, a.window_after)
                  IN  k \in det_out <=> (W # {} /\ FarFromWindow(a.series, k, W, a.threshold))
            /\ a = ExampleCall => det_out = {5}

\* the detector has run on the example series
C10_Witness == det_pc = "returned" /\ det_in = Some(ExampleCall) /\ det_out = {5}


\* C11: a point whose window is empty is never flagged: a series of length 1
\* flags nothing, with window_after = 0 the first point of a series is never
\* flagged, and with window_before = 0 the last point is never flagged.
C11_EmptyWindowNeverFlagged ==
    det_pc = "returned" =>
        LET a == det_in[1]
            first == CHOOSE k \in DOMAIN a.series : \A j \in DOMAIN a.series : k <= j
            last == CHOOSE k \in DOMAIN a.series : \A j \in DOMAIN a.series : k >= j
        IN  /\ Cardinality(DOMAIN a.series) = 1 => det_out = {}
            /\ a.window_after = 0 => first \notin det_out
            /\ a.window_before = 0 => last \notin det_out
            /\ \A k \in DOMAIN a.series :
                  WindowOf(a.series, k, a.window_before, a.window_after) = {}
                      => k \notin det_out

\* a call with window_after = 0 that flags a section, on a series whose first
\* value differs from all the others
C11_Witness ==
    /\ det_pc = "returned"
    /\ det_in[1].window_after = 0
    /\ det_in[1].window_before = MaxWin
    /\ det_out # {}
    /\ \E k \in DOMAIN det_in[1].series :
          /\ \A j \in DOMAIN det_in[1].series : k <= j
          /\ \A j \in DOMAIN det_in[1].series \ {k} :
                det_in[1].series[j] # det_in[1].series[k]
          /\ Cardinality(DOMAIN det_in[1].series) >= 3

\* C12: for a strictly constant series the detector flags no section, for
\* every threshold and every window_before and window_after.
C12_ConstantSeriesFlagsNothing ==
    (det_pc = "returned"
        /\ \A j, k \in DOMAIN det_in[1].series : det_in[1].series[j] = det_in[1].series[k])
    => det_out = {}

\* a constant series of several sections, looked at through windows on both
\* sides with threshold 0
C12_Witness ==
    /\ det_pc = "returned"
    /\ Cardinality(DOMAIN det_in[1].series) >= 3
    /\ \A j, k \in DOMAIN det_in[1].series : det_in[1].series[j] = det_in[1].series[k]
    /\ det_in[1].window_before > 0 /\ det_in[1].window_after > 0
    /\ det_in[1].threshold = 0
    /\ det_out = {}

-----------------------------------------------------------------------------
(* Claims about the outlier run *)

\* the record process_tile_id kept for section n, if it kept one
StoredFor(n) == {last_call[1].mapped[i][2] :
                    i \in {j \in 1..Len(last_call[1].mapped) : last_call[1].mapped[j][1] = n}}

\* the tile has no neighbour on the axis: last column for axis 0, last row for
\* axis 1
AtFarEdge(tile_map, axis, yx) ==
    IF axis = 0 THEN yx[2] = Size(tile_map[0]) - 1 ELSE yx[1] = Size(tile_map) - 1

\* C3: resolving the neighbour of a flagged section in process_tile_id never
\* raises: every flagged section has a record stored, and a record made for a
\* tile in the last column (axis 0) or the last row (axis 1) of the section's
\* grid holds not-found for the neighbour tile id.
C3_NeighbourResolutionNeverRaises ==
    last_call # None =>
        /\ ~last_call[1].raised
        /\ \A p \in DOMAIN last_call[1].evaluated :
              \A n \in last_call[1].evaluated[p].flagged :
                  /\ StoredFor(n) # {}
                  /\ \A rec \in StoredFor(n) :
                        AtFarEdge(tile_id_maps_obj[1][DecStr(n)], rec[1], <<rec[3], rec[4]>>)
                            => rec[6] = None

\* C9: the detector process_tile_id invokes evaluates each section of a series
\* against the up to n_before values before it and the up to n_after values
\* after it, counted by position in section order, each of the two honoured
\* separately and the window cut at both ends of the series: every series it
\* evaluates has exactly those sections flagged that lie further than thresh
\* standard deviations from the mean of that window.
C9_WindowsHonouredSeparately ==
    last_call # None =>
        \A p \in DOMAIN last_call[1].evaluated :
            LET e == last_call[1].evaluated[p]
            IN  e.flagged =
                    {k \in DOMAIN e.trace :
                        LET W == WindowOf(e.trace, k, run_args[1].n_before, run_args[1].n_after)
                        IN  W # {} /\ FarFromWindow(e.trace, k, W, run_args[1].thresh)}

\* C13: for one tile, the set of section numbers process_tile_id records equals
\* the union of the sections the detector flagged over the series of the tile
\* (axis 0/1 x vector component 0/1); every recorded section is a key of the
\* tile's trace, and nothing is stored when the union is empty.
C13_RecordedIsUnionOfFlagged ==
    last_call # None =>
        LET c == last_call[1]
            flagged == UNION {c.evaluated[p].flagged : p \in DOMAIN c.evaluated}
            recorded == {c.stored[i][1] : i \in 1..Len(c.stored)}
        IN  /\ recorded = flagged
            /\ \A n \in recorded : \E p \in DOMAIN c.evaluated : n \in DOMAIN c.evaluated[p].trace
            /\ flagged = {} => c.stored = <<>>

\* the lines of the outlier report, none if the file does not exist
ReportLines(dir) == IF "coarse_offset_outliers.txt" \in DOMAIN dir
                    THEN dir["coarse_offset_outliers.txt"] ELSE <<>>

\* the lines of the records a process_tile_id call stored
RecordLines(call) ==
    [i \in 1..Len(call.stored) |-> SaveTxtLine(call.stored[i][1], call.stored[i][2])]

C18_HeaderOnceOnTop ==
    "coarse_offset_outliers.txt" \in DOMAIN inspect_dir =>
        /\ Len(ReportLines(inspect_dir)) >= 2
        /\ ReportLines(inspect_dir)[1] = OutHeader
        /\ \A i \in 2..Len(ReportLines(inspect_dir)) : ReportLines(inspect_dir)[i] # OutHeader

C18_CallAppends ==
    /\ "coarse_offset_outliers.txt" \in DOMAIN inspect_dir
           => "coarse_offset_outliers.txt" \in DOMAIN inspect_dir'
    /\ Len(ReportLines(inspect_dir')) >= Len(ReportLines(inspect_dir))
    /\ SubSeq(ReportLines(inspect_dir'), 1, Len(ReportLines(inspect_dir)))
           = ReportLines(inspect_dir)
    /\ last_call' # last_call =>
          SubSeq(ReportLines(inspect_dir'),
                 (IF ReportLines(inspect_dir) = <<>> THEN 1 ELSE 0)
                     + Len(ReportLines(inspect_dir)) + 1,
                 Len(ReportLines(inspect_dir'))) = RecordLines(last_call'[1])

\* C18: over the store_outliers calls of a run that starts without a report
\* file, coarse_offset_outliers.txt holds exactly one header line, as its
\* first line, followed by the records of every call in call order: each call
\* appends its records after the lines already there and alters or removes
\* none of them.
C18_ReportIsAppendOnly == [](C18_HeaderOnceOnTop) /\ [][C18_CallAppends]_vars

\* the report after two calls that each stored records
C18_Witness ==
    /\ last_call # None
    /\ last_call[1].stored # <<>>
    /\ Len(ReportLines(inspect_dir)) > 1 + Len(last_call[1].stored)

-----------------------------------------------------------------------------
(* Claims about the grid lookups *)

Returned(fn) == grid_out # None /\ grid_out[1].fn = fn

\* the cells of the grid of the call that hold tile_id
CellsOf(tile_id) ==
    {yx \in GridCells(grid_in[1].tile_id_map) :
        grid_in[1].tile_id_map[yx[1]][yx[2]] = tile_id}

\* the first of a non-empty set of cells in row-major scan order
FirstInScan(cells) ==
    CHOOSE yx \in cells : \A c \in cells : c[1] > yx[1] \/ (c[1] = yx[1] /\ c[2] >= yx[2])

\* C14: get_vert_tile_id(grid, tile_id) returns the value of the cell directly
\* below the row-major first occurrence of the tile id, and not-found when that
\* occurrence is in the last row or the id does not occur in the grid (a
\* negative id is no tile id and is not-found); for the grid
\* [[1,2,3],[4,5,6],[7,8,9]] it returns 8 for tile 5 and not-found for tile 9.
C14_VerticalNeighbourBelowFirstOccurrence ==
    Returned("get_vert_tile_id") =>
        LET g == grid_in[1].tile_id_map
            t == grid_in[1].tile_id
            ret == grid_out[1].ret
        IN  /\ (t < 0 \/ CellsOf(t) = {}) => ret = None
            /\ (t >= 0 /\ CellsOf(t) # {}) =>
                  LET yx == FirstInScan(CellsOf(t))
                  IN  IF yx[1] = Size(g) - 1 THEN ret = None
                      ELSE ret = Some(g[yx[1] + 1][yx[2]])
            /\ (g = ExampleGrid /\ t = 5) => ret = Some(8)
            /\ (g = ExampleGrid /\ t = 9) => ret = None

\* the call of the example that returns 8
C14_Witness ==
    /\ Returned("get_vert_tile_id")
    /\ grid_in[1].tile_id_map = ExampleGrid
    /\ grid_in[1].tile_id = 5
    /\ grid_out[1].ret = Some(8)

\* C15: whenever get_vert_tile_id returns a value rather than not-found, the
\* value is a tile identity: a non-negative id that occurs in the grid, never
\* the hole sentinel -1.
C15_VerticalNeighbourIsTileIdentity ==
    (Returned("get_vert_tile_id") /\ grid_out[1].ret # None) =>
        /\ grid_out[1].ret[1] >= 0
        /\ CellsOf(grid_out[1].ret[1]) # {}

\* C16: locating a tile id in a grid, by get_tid_idx and by the lookup inside
\* get_trace, gives the coordinate of its first occurrence in row-major scan
\* order, duplicates later in the grid or not, and not-found when the id is
\* absent or is the sentinel -1.
C16_LocateFirstOccurrence ==
    (Returned("get_tid_idx") \/ Returned("get_trace")) =>
        LET t == grid_in[1].tile_id
        IN  grid_out[1].ret = IF t = -1 \/ CellsOf(t) = {} THEN None
                              ELSE Some(FirstInScan(CellsOf(t)))

-----------------------------------------------------------------------------
(* Claims about the tile-id sets *)

\* the non-sentinel values that occur in any grid of the tile-id-map archive
NonSentinelValues ==
    LET tid_maps == inspect_dir["all_tile_id_maps.npz"]
    IN  {v \in -1..(3 + NumRows * NumCols) :
            /\ v # -1
            /\ \E k \in DOMAIN tid_maps : \E y \in DOMAIN tid_maps[k] :
                  \E x \in DOMAIN tid_maps[k][y] : tid_maps[k][y][x] = v}

\* C17: the union of tile ids over all sections is exactly the set of
\* non-sentinel values occurring in any section's grid, for every collection
\* of grids, those without a hole included; get_unique_tile_ids and
\* get_tile_ids_set return this same set on the same archive.
C17_TileIdSetsAgree ==
    "all_tile_id_maps.npz" \in DOMAIN inspect_dir =>
        /\ unique_ret # None => unique_ret[1] = NonSentinelValues
        /\ ids_set_ret # None =>
              /\ ~ids_set_ret[1].raised
              /\ ids_set_ret[1].value = NonSentinelValues

-----------------------------------------------------------------------------
(* Claims about running twice *)

\* C19: running the aggregation (backup_coarse_offsets and
\* backup_tile_id_maps) twice over unchanged section directories leaves both
\* archives and both missing-file reports as they were after the first run.
C19_AggregationIdempotent ==
    (run_no = 2 /\ agg_pc \in {"done", "raised"}) => inspect_dir = first_dir[1]

\* a second run that ended, over directories of which one lacks its offsets
\* file and one has it
C19_Witness ==
    /\ run_no = 2 /\ agg_pc = "done"
    /\ DOMAIN inspect_dir["all_offsets.npz"] # {}
    /\ inspect_dir["all_offsets_missing_files.txt"] # <<>>
    /\ DOMAIN first_dir[1] = {"all_offsets.npz", "all_offsets_missing_files.txt",
                              "all_tile_id_maps.npz", "all_missing_tile_id_maps.txt"}

\* C20: running main_get_cxyz_outliers a second time with the same parameters
\* over unchanged archives leaves the outlier report with the content it had
\* after the first run.
C20_OutlierRunIdempotent ==
    (run_no = 2 /\ td_pc \in {"done", "raised"}) =>
        ReportLines(inspect_dir) = ReportLines(first_dir[1])

-----------------------------------------------------------------------------
(* Claims about the missing-files reports *)

\* the lines of a text, as str.splitlines gives them: cut at every newline, a
\* final newline opening no further line
RECURSIVE SplitLines(_)
SplitLines(text) ==
    IF text = <<>> THEN <<>>
    ELSE LET nl == {i \in 1..Len(text) : text[i] = NL}
         IN  IF nl = {} THEN <<text>>
             ELSE LET i == CHOOSE j \in nl : \A k \in nl : j <= k
                  IN  <<SubSeq(text, 1, i - 1)>> \o SplitLines(SubSeq(text, i + 1, Len(text)))

\* the label of a missing section without its newline
LabelOf(entry) == SubSeq(entry, 1, Len(entry) - 1)

\* a report holds the labels of the missing list, one per line
OneLabelPerLine(report, failed_paths) ==
    /\ Len(SplitLines(report)) = Len(failed_paths)
    /\ \A i \in 1..Len(SplitLines(report)) : SplitLines(report)[i] # <<>>
    /\ \A i \in 1..Len(failed_paths) : SplitLines(report)[i] = LabelOf(failed_paths[i])

\* C21: each missing-files report holds one section label per line: for n
\* missing sections the file has exactly n lines, each one label, none empty.
C21_OneLabelPerLine ==
    /\ "all_offsets_missing_files.txt" \in DOMAIN inspect_dir =>
          OneLabelPerLine(inspect_dir["all_offsets_missing_files.txt"], offsets_failed)
    /\ "all_missing_tile_id_maps.txt" \in DOMAIN inspect_dir =>
          OneLabelPerLine(inspect_dir["all_missing_tile_id_maps.txt"], maps_failed)

-----------------------------------------------------------------------------
(* Claims about missing archives *)

\* C22: when a required archive does not exist the entry point fails before
\* doing any work: load_data raises with nothing loaded, no tile processed and
\* no outlier row written, and locate_inf_vals with a missing offsets archive
\* returns None to its caller and writes no report.
C22_MissingArchiveFailsBeforeWork ==
    /\ ("all_offsets.npz" \notin DOMAIN inspect_dir
            \/ "all_tile_id_maps.npz" \notin DOMAIN inspect_dir) =>
          /\ td_pc \in {"constructed", "raised"}
          /\ cxyz_obj = None /\ tile_id_maps_obj = None
          /\ last_call = None /\ tile_idx = 1
          /\ "coarse_offset_outliers.txt" \notin DOMAIN inspect_dir
    /\ ("all_offsets.npz" \notin DOMAIN inspect_dir /\ inf_pc # "idle") =>
          /\ inf_pc = "returned" /\ inf_ret = None
          /\ "inf_vals.txt" \notin DOMAIN inspect_dir

\* both entry points have failed on a directory with the tile-id maps and
\* without the offsets
C22_Witness ==
    /\ "all_offsets.npz" \notin DOMAIN inspect_dir
    /\ "all_tile_id_maps.npz" \in DOMAIN inspect_dir
    /\ td_pc = "raised"
    /\ inf_pc = "returned" /\ inf_ret = None

-----------------------------------------------------------------------------
(* Claims about the parsing stage *)

S100G0 == <<"s", "1", "0", "0", "_", "g", "0">>

\* the four calls of test_section_in_range
RangeTestCases ==
    /\ range_in = <<S100G0, 100, 200>> => range_out = Some(Some(TRUE))
    /\ range_in = <<S100G0, 101, 200>> => range_out = Some(Some(FALSE))
    /\ range_in = <<S100G0, 99, 100>> => range_out = Some(Some(TRUE))
    /\ range_in = <<S100G0, 90, 99>> => range_out = Some(Some(FALSE))

\* C23: section_in_range(name, start, end), for a name of the form s<z>_g<n>,
\* returns true exactly when start <= z <= end, both bounds inclusive.
C23_InclusiveRange ==
    range_out # None =>
        /\ \A z \in RangeSecNums, g \in RangeGridNums :
              range_in[1] = SecName(z, g) =>
                  range_out[1] = Some(range_in[2] <= z /\ z <= range_in[3])
        /\ range_in[1] = ZeroPaddedName =>
              range_out[1] = Some(range_in[2] <= 99 /\ 99 <= range_in[3])
        /\ RangeTestCases

\* a section number equal to the upper bound was found in range
C23_Witness ==
    /\ range_in = <<S100G0, 99, 100>>
    /\ range_out = Some(Some(TRUE))

-----------------------------------------------------------------------------
(* Claims about the archives during an outlier run *)

ArchiveFiles == {"all_offsets.npz", "all_tile_id_maps.npz"}

\* what is loaded is what the files hold, so that loading again (as
\* process_all_tile_ids does) gives the same objects
LoadedAsOnDisk ==
    td_pc \in {"loaded", "done"} =>
        /\ cxyz_obj = LoadNpz("all_offsets.npz")
        /\ tile_id_maps_obj = LoadNpz("all_tile_id_maps.npz")

\* a step of a loaded run leaves the loaded objects and both files as they were
ArchivesUntouched ==
    td_pc = "loaded" =>
        /\ cxyz_obj' = cxyz_obj
        /\ tile_id_maps_obj' = tile_id_maps_obj
        /\ \A name \in ArchiveFiles :
              /\ name \in DOMAIN inspect_dir'
              /\ inspect_dir'[name] = inspect_dir[name]

\* C24: once loaded for a run the two aggregated archives are read-only: no
\* sequence of process_tile_id calls changes a value of the offset tensors or
\* of the tile-id maps, in memory or on disk.
C24_ArchivesReadOnly == [](LoadedAsOnDisk) /\ [][ArchivesUntouched]_vars

\* a run that stored records for two tiles, over offsets with a raised plane
C24_Witness ==
    /\ td_pc = "done" /\ tile_idx = 3
    /\ last_call # None /\ last_call[1].stored # <<>>
    /\ Len(ReportLines(inspect_dir)) > 1 + Len(last_call[1].stored)
    /\ cxyz_obj = LoadNpz("all_offsets.npz")

-----------------------------------------------------------------------------
(* Claims about what the aggregation keeps *)

\* C25: no section directory is silently dropped by the aggregation: once it
\* has returned, every directory of the list is represented by its own key of
\* the mapping or by an entry of the missing list, so that the number of keys
\* plus the number of missing entries is the number of directories, also when
\* two directories carry the same section number with different grid suffixes.
C25_NoDirectoryDropped ==
    /\ OffsetsReturned =>
          Cardinality(DOMAIN offsets) + Len(offsets_failed) = Len(section_dirs)
    /\ MapsReturned =>
          Cardinality(DOMAIN maps) + Len(maps_failed) = Len(section_dirs)

-----------------------------------------------------------------------------
(* Claims about the outlier records *)

\* the grid of section num in the loaded tile-id maps
LoadedGrid(num) == tile_id_maps_obj[1][DecStr(num)]

\* the line of a record: section, axis, vector-component, row, col, tile-id,
\* neighbor-tile-id
LineOf(num, axis, vec_component, y, x, tid, tid_nn) ==
    <<ToString(num), ToString(axis), ToString(vec_component), ToString(y), ToString(x),
      ToString(tid), IF tid_nn = None THEN "None" ELSE ToString(tid_nn[1])>>

\* the cell below (y, x), or None on the last row
CellBelow(grid, y, x) == IF y + 1 < Size(grid) THEN Some(grid[y + 1][x]) ELSE None

\* the j-th record the last call stored is the record of a section a series
\* flagged, at the place of the tile in that section, with the neighbour of
\* the axis, and is written as the j-th of the last lines of the report
RecordAsSpecified(j) ==
    LET num == last_call[1].stored[j][1]
        rec == last_call[1].stored[j][2]
        grid == LoadedGrid(num)
        lines == ReportLines(inspect_dir)
        n == Len(last_call[1].stored)
    IN  /\ Len(rec) = 6
        /\ <<rec[1], rec[2]>> \in DOMAIN last_call[1].evaluated
        /\ num \in last_call[1].evaluated[<<rec[1], rec[2]>>].flagged
        /\ rec[5] = last_call[1].tile_id
        /\ <<rec[3], rec[4]>> \in GridCells(grid)
        /\ grid[rec[3]][rec[4]] = last_call[1].tile_id
        /\ rec[1] = 1 => rec[6] = CellBelow(grid, rec[3], rec[4])
        /\ rec[1] = 0 => rec[6] = Some(grid[rec[3]][rec[4] + 1])
        /\ lines[Len(lines) - n + j] =
              LineOf(num, rec[1], rec[2], rec[3], rec[4], last_call[1].tile_id, rec[6])

\* C26: every outlier record written for a call process_tile_id(tile_id, ...)
\* has the field order (section, axis, vector-component, row, col, tile-id,
\* neighbor-tile-id), its tile-id field is tile_id, its (row, col) is where
\* tile_id sits in the grid of that section, and its neighbor is the cell below
\* when the axis is 1 and the cell to the right when the axis is 0.
C26_RecordFields ==
    last_call # None =>
        \A j \in 1..Len(last_call[1].stored) : RecordAsSpecified(j)

\* a stored record of the horizontal axis whose right neighbour is a tile
C26_Witness ==
    /\ last_call # None
    /\ \E j \in 1..Len(last_call[1].stored) :
          /\ last_call[1].stored[j][2][1] = 0
          /\ last_call[1].stored[j][2][6] # None
          /\ last_call[1].stored[j][2][6][1] >= 0

\* position of an (axis, vec_component) pair in the evaluation order
SeriesPos(axis, vec_component) ==
    CHOOSE i \in 1..Len(SeriesOrder) : SeriesOrder[i] = <<axis, vec_component>>

\* the series of the last call that flagged section num
FlaggingSeries(num) ==
    {p \in DOMAIN last_call[1].evaluated : num \in last_call[1].evaluated[p].flagged}

\* C27: one call of process_tile_id stores at most one record per section:
\* when several of the four (axis, component) series flag a section, only the
\* record of the last flagging series in evaluation order (axis 0 before axis
\* 1, component 0 before component 1) is kept.
C27_LastFlaggingSeriesWins ==
    (last_call # None /\ ~last_call[1].raised) =>
        LET stored == last_call[1].stored
        IN  /\ \A i, j \in 1..Len(stored) : stored[i][1] = stored[j][1] => i = j
            /\ \A j \in 1..Len(stored) :
                  LET num == stored[j][1]
                      rec == stored[j][2]
                  IN  /\ <<rec[1], rec[2]>> \in FlaggingSeries(num)
                      /\ \A p \in FlaggingSeries(num) :
                            SeriesPos(p[1], p[2]) <= SeriesPos(rec[1], rec[2])
            /\ \A p \in DOMAIN last_call[1].evaluated :
                  \A num \in last_call[1].evaluated[p].flagged :
                      \E j \in 1..Len(stored) : stored[j][1] = num

\* a call in which two series flagged the same section and one record was kept
C27_Witness ==
    /\ last_call # None /\ ~last_call[1].raised
    /\ \E j \in 1..Len(last_call[1].stored) :
          /\ Cardinality(FlaggingSeries(last_call[1].stored[j][1])) >= 2
          /\ last_call[1].stored[j][2][1] = 1

-----------------------------------------------------------------------------
(* Claims about the locator on incomplete tile-id maps *)

\* C28: locate_inf_vals produces its records for every section of the offsets
\* archive without raising, also when all_tile_id_maps.npz exists but has no
\* entry for one of those sections.
C28_LocatorToleratesMissingMap ==
    ("all_offsets.npz" \in DOMAIN inspect_dir
        /\ "all_tile_id_maps.npz" \in DOMAIN inspect_dir
        /\ inf_pc # "idle") =>
            /\ inf_pc = "returned"
            /\ inf_ret # None

-----------------------------------------------------------------------------
(* Claims about the chunk files *)

\* the chunks written, concatenated in index order
RECURSIVE ConcatChunks(_)
ConcatChunks(n) == IF n = 0 THEN <<>> ELSE ConcatChunks(n - 1) \o chunk_files[n - 1]

\* the section number a directory name was built from
SecNumOf(name) == CHOOSE z \in ParseSecNums : \E g \in GridNums : name = SecName(z, g)

\* place of a directory in the glob result
GlobPos(name) == CHOOSE i \in 1..Len(glob_paths) : glob_paths[i] = name

\* C29: the chunk files written by the parse_sections stage partition the
\* work: concatenated in index order they give exactly the numerically sorted
\* list of the section directories whose id lies in [start_section,
\* end_section] (directories of equal id in glob order), every chunk has at
\* most chunk_size entries, every chunk but the last exactly chunk_size, and no
\* section appears in two chunks. chunk_size is a positive number.
C29_ChunksPartitionSortedSections ==
    (parse_pc # "start" /\ wf_config[1].chunk_size >= 1) =>
        LET n == Cardinality(DOMAIN chunk_files)
            all == ConcatChunks(n)
            size == wf_config[1].chunk_size
        IN  /\ parse_pc # "raised"
            /\ DOMAIN chunk_files = 0..(n - 1)
            /\ \A i \in DOMAIN chunk_files :
                  /\ 1 <= Len(chunk_files[i]) /\ Len(chunk_files[i]) <= size
                  /\ i < n - 1 => Len(chunk_files[i]) = size
            /\ \A i, j \in 1..Len(all) : all[i] = all[j] => i = j
            /\ \A i, j \in 1..Len(all) :
                  i < j => \/ SecNumOf(all[i]) < SecNumOf(all[j])
                           \/ /\ SecNumOf(all[i]) = SecNumOf(all[j])
                              /\ GlobPos(all[i]) < GlobPos(all[j])
            /\ Range(all) \subseteq
                  {p \in Range(glob_paths) :
                      wf_config[1].start_section <= SecNumOf(p)
                          /\ SecNumOf(p) <= wf_config[1].end_section}
            /\ parse_pc = "done" =>
                  Range(all) =
                      {p \in Range(glob_paths) :
                          wf_config[1].start_section <= SecNumOf(p)
                              /\ SecNumOf(p) <= wf_config[1].end_section}

\* a finished run that wrote two full chunks and a shorter last one, over a
\* glob result that was not in numeric order
C29_Witness ==
    /\ parse_pc = "done"
    /\ wf_config[1].chunk_size = 1 /\ wf_config[1].start_section = 2
    /\ DOMAIN chunk_files = 0..2
    /\ glob_paths[1] = SecName(10, 1)
    /\ chunk_files[0] = <<SecName(2, 2)>>
    /\ chunk_files[1] = <<SecName(2, 1)>>

-----------------------------------------------------------------------------
(* Claims about the mask computation *)

\* C30: after a mask-computation run completes, the done-sections list it
\* writes (sections_with_masks.yaml, sections_with_smear_masks.yaml) holds
\* every section path of the config that was processed, in processing order.
C30_DoneListHoldsProcessedSections ==
    done_file # None =>
        /\ masks_computed = mask_paths
        /\ done_file[1] = masks_computed

=============================================================================
